---- MODULE Spec2Model ----
(***************************************************************************)
(* A model of simple-proxy: the HTTP Range negotiator (parseRangeHeader),  *)
(* the in-process MP4 chunk cache with its background prefetch and sweep,  *)
(* the Redis-backed warm tier, the proxyMP4 handlers and the HLS playlist  *)
(* rewrite of proxyM3U8.                                                   *)
(*                                                                         *)
(* Text (header values, playlist lines, URLs) is a sequence of one-        *)
(* character strings, so that prefix tests, regular-expression matches,    *)
(* decimal formatting and parsing are computed character by character.     *)
(* Each subsystem records the outcome of its last operation in a history   *)
(* variable; a subsystem that a specification does not exercise stays in   *)
(* its initial state.                                                      *)
(***************************************************************************)
EXTENDS Integers, Sequences, FiniteSets, Bags, TLC
VARIABLES
    parsed,         \* last parseRangeHeader call: its arguments and result
    segmentCache,   \* part_002: Map<cacheKey, CacheEntry> of MP4 chunks
    now,            \* Date.now(), in clock ticks
    inflight,       \* upstream fetches of prefetchMP4Chunk awaiting their answer
    scheduled,      \* setTimeout callbacks of proxyMP4 not yet run
    lastGet,        \* last hot tier lookup: what it found, returned and left
    tsSegmentCache, \* m3u8-proxy.ts: Map<url, CacheEntry> of TS segments
    cacheDisabled,  \* part_002: process.env.DISABLE_CACHE === 'true'
    upstream,       \* how the origin server behaves
    deployed,       \* which proxyMP4 the MP4 route runs
    request,        \* the MP4 request being handled
    response,       \* the response to it
    redis,          \* the keyspace of the Redis server
    isConnected,    \* RedisCache.isConnected
    warm,           \* the warm tier call being made: what it read or wrote
    tsWrites,       \* s.ts: the cache writes of answered requests still under way
    analytics,      \* the counters of CacheAnalytics
    config,         \* config.json: DISABLE_CACHE, DISABLE_M3U8; env: DISABLE_MP4
    playlist,       \* the playlist request being handled and its outcome
    strategy        \* the request of the MP4 strategy handler and its outcome

rangeVars == <<parsed>>
hotVars == <<segmentCache, now, inflight, scheduled, lastGet, tsSegmentCache,
             cacheDisabled>>
mp4Vars == <<upstream, deployed, request, response>>
jobVars == <<tsWrites, analytics, config>>
warmVars == <<redis, isConnected, warm, tsWrites, analytics, config>>
playlistVars == <<playlist>>
strategyVars == <<strategy>>
vars == <<parsed, segmentCache, now, inflight, scheduled, lastGet, tsSegmentCache,
          cacheDisabled, upstream, deployed, request, response, redis,
          isConnected, warm, tsWrites, analytics, config, playlist, strategy>>

-----------------------------------------------------------------------------
(* Text *)

Digits == <<"0", "1", "2", "3", "4", "5", "6", "7", "8", "9">>

\* the value of a decimal digit character, -1 for any other character
DigitValue(c) ==
    IF \E i \in 1..10 : Digits[i] = c
    THEN (CHOOSE i \in 1..10 : Digits[i] = c) - 1
    ELSE -1

\* \d
IsDigit(c) == DigitValue(c) >= 0

Max(a, b) == IF a >= b THEN a ELSE b
\* the sequence without its i-th element
Remove(s, i) == SubSeq(s, 1, i - 1) \o SubSeq(s, i + 1, Len(s))

Min(a, b) == IF a <= b THEN a ELSE b

\* a template literal's ${n} for an integer n
RECURSIVE NatToStr(_)
NatToStr(n) ==
    IF n < 10 THEN <<Digits[n + 1]>>
    ELSE NatToStr(n \div 10) \o <<Digits[(n % 10) + 1]>>

ToStr(n) == IF n < 0 THEN <<"-">> \o NatToStr(0 - n) ELSE NatToStr(n)

StartsWith(s, prefix) ==
    /\ Len(s) >= Len(prefix)
    /\ SubSeq(s, 1, Len(prefix)) = prefix

\* the rest of s from (1-based) position i
From(s, i) == SubSeq(s, i, Len(s))

-----------------------------------------------------------------------------
(* Range Negotiator: parseRangeHeader (s.ts, part_002, part_003: identical) *)

BYTES_EQ == <<"b", "y", "t", "e", "s", "=">>

null == [null |-> TRUE]

\* the length of the longest prefix of s made of digits: a greedy \d*
RECURSIVE DigitRun(_)
DigitRun(s) ==
    IF s # <<>> /\ IsDigit(Head(s)) THEN 1 + DigitRun(Tail(s)) ELSE 0

\* rangeHeader.match(/^bytes=(\d*)-(\d*)$/): null, or the two capture groups
MatchRange(rangeHeader) ==
    IF ~StartsWith(rangeHeader, BYTES_EQ) THEN null
    ELSE LET rest == From(rangeHeader, Len(BYTES_EQ) + 1)
             n == DigitRun(rest)
             after == From(rest, n + 1)
         IN  IF after # <<>> /\ Head(after) = "-"
                  /\ DigitRun(Tail(after)) = Len(Tail(after))
             THEN [startStr |-> SubSeq(rest, 1, n), endStr |-> Tail(after)]
             ELSE null

\* parseInt(str, 10) of a non-empty string of digits
RECURSIVE ParseIntMutant(_)
ParseIntMutant(str) ==
    IF Len(str) <= 1 THEN DigitValue(str[1])
    ELSE DigitValue(str[1]) + 10 * ParseIntMutant(Tail(str))

RECURSIVE parseInt(_)
parseInt(str) ==
    IF Len(str) = 1 THEN DigitValue(str[1])
    ELSE 10 * parseInt(SubSeq(str, 1, Len(str) - 1)) + DigitValue(str[Len(str)])

parseRangeHeaderNoSuffix(rangeHeader, contentLength) ==
    LET match == MatchRange(rangeHeader) IN
    IF match = null THEN null
    ELSE LET start == IF match.startStr # <<>> THEN parseInt(match.startStr) ELSE 0
             end == IF match.endStr # <<>> THEN parseInt(match.endStr)
                    ELSE contentLength - 1
         IN  IF start >= contentLength \/ end >= contentLength \/ start > end
             THEN null
             ELSE [start |-> start, end |-> end]

parseRangeHeaderNoCheck(rangeHeader, contentLength) ==
    LET match == MatchRange(rangeHeader) IN
    IF match = null THEN null
    ELSE LET start0 == IF match.startStr # <<>> THEN parseInt(match.startStr) ELSE 0
             end0 == IF match.endStr # <<>> THEN parseInt(match.endStr)
                     ELSE contentLength - 1
             suffix == match.startStr = <<>> /\ match.endStr # <<>>
             start == IF suffix THEN Max(0, contentLength - end0) ELSE start0
             end == IF suffix THEN contentLength - 1 ELSE end0
         IN  IF start >= contentLength \/ start > end
             THEN null
             ELSE [start |-> start, end |-> end]

parseRangeHeader(rangeHeader, contentLength) ==
    LET match == MatchRange(rangeHeader) IN
    IF match = null THEN null
    ELSE LET start0 == IF match.startStr # <<>> THEN parseInt(match.startStr) ELSE 0
             end0 == IF match.endStr # <<>> THEN parseInt(match.endStr)
                     ELSE contentLength - 1
             \* suffix-byte-range-spec (bytes=-512)
             suffix == match.startStr = <<>> /\ match.endStr # <<>>
             start == IF suffix THEN Max(0, contentLength - end0) ELSE start0
             end == IF suffix THEN contentLength - 1 ELSE end0
         IN  IF start >= contentLength \/ end >= contentLength \/ start > end
             THEN null
             ELSE [start |-> start, end |-> end]

\* the largest byte position written in a Range header
MaxByte == 11
\* the largest content length
MaxLen == 11

ClosedRange(s, e) == BYTES_EQ \o ToStr(s) \o <<"-">> \o ToStr(e)
OpenRange(s) == BYTES_EQ \o ToStr(s) \o <<"-">>
SuffixRange(n) == BYTES_EQ \o <<"-">> \o ToStr(n)

\* headers that are not one bytes=<start>-<end>
MalformedHeaders == {
    <<"b", "y", "t", "e", "s", "=", "0", "-", "1", ",", "2", "-", "3">>,
    <<"b", "y", "t", "e", "s", "=", "0", "-", "1", ",", " ", "2", "-", "3">>,
    <<"b", "y", "t", "e", "s", "=", "0", "-", "0", ",", "-", "1">>,
    <<"b", "y", "t", "e", "s", "=", "a", "-", "b">>,
    <<"b", "y", "t", "e", "s", " ", "0", "-", "1">>,
    <<"B", "y", "t", "e", "s", "=", "0", "-", "1">>,
    <<" ", "b", "y", "t", "e", "s", "=", "0", "-", "1">>,
    <<"b", "y", "t", "e", "s", "=", "0", "-", "1", " ">>,
    <<"b", "y", "t", "e", "s", "=", "0">>,
    <<"b", "y", "t", "e", "s", "=", "0", "-", "-", "1">>,
    <<"i", "t", "e", "m", "s", "=", "0", "-", "1">>,
    <<>>,
    <<"b", "y", "t", "e", "s", "=", "1", "-", "2", "-", "3">>,
    <<"b", "y", "t", "e", "s", "=", "-", "1", "-", "2">>,
    <<"b", "y", "t", "e", "s", "=">>,
    <<"b", "y", "t", "e", "s", "=", " ", "0", "-", "1">>,
    <<"b", "y", "t", "e", "s", "=", "0", " ", "-", " ", "1">>,
    <<"x", "b", "y", "t", "e", "s", "=", "0", "-", "1">>,
    <<"b", "y", "t", "e", "s", "=", "0", "-", "1", "\n">>,
    <<"0", "-", "1">> }

\* the same range written with leading zeros
PaddedHeaders == {
    <<"b", "y", "t", "e", "s", "=", "0", "0", "-", "0", "1">>,
    <<"b", "y", "t", "e", "s", "=", "0", "0", "7", "-", "0", "1", "0">>,
    <<"b", "y", "t", "e", "s", "=", "-", "0", "1">>,
    <<"b", "y", "t", "e", "s", "=", "0", "1", "-">> }

RangeHeaders ==
    {ClosedRange(s, e) : s \in 0..MaxByte, e \in 0..MaxByte}
        \cup {OpenRange(s) : s \in 0..MaxByte}
        \cup {SuffixRange(n) : n \in 0..MaxByte}
        \cup MalformedHeaders \cup PaddedHeaders \cup {BYTES_EQ \o <<"-">>}

\* a call parseRangeHeader(h, L) about to be made, for every header and length
RangeInit ==
    \E h \in RangeHeaders, L \in 0..MaxLen :
        parsed = [called |-> FALSE, rangeHeader |-> h, contentLength |-> L]

RangeIdle == parsed = null

ParseRangeHeader ==
    /\ parsed # null
    /\ ~parsed.called
    /\ parsed' = [called |-> TRUE, rangeHeader |-> parsed.rangeHeader,
                  contentLength |-> parsed.contentLength,
                  result |-> parseRangeHeader(parsed.rangeHeader,
                                              parsed.contentLength)]
    /\ UNCHANGED <<hotVars, mp4Vars, warmVars, playlistVars, strategyVars>>

NextRange == ParseRangeHeader

-----------------------------------------------------------------------------
(* Upstream: the origin server that globalThis.fetch reaches *)

\* a header that the message does not carry; headers.get() || x, and
\* if (rangeHeader), treat the missing header and the empty string alike
absent == <<>>

MP4_A == <<"h", "t", "t", "p", ":", "/", "/", "h", "/", "a", ".", "m", "p", "4">>
MP4_B == <<"h", "t", "t", "p", ":", "/", "/", "h", "/", "b", ".", "m", "p", "4">>
URLs == {MP4_A, MP4_B}

MP4_C == <<"h", "t", "t", "p", ":", "/", "/", "h", "/", "c", ".", "m", "p", "4">>

\* the bytes of the resource at url: MP4_A has 2 bytes, MP4_B has 5, MP4_C has 9
Content(url) ==
    IF url = MP4_A THEN <<10, 11>>
    ELSE IF url = MP4_C THEN <<30, 31, 32, 33, 34, 35, 36, 37, 38>>
    ELSE <<20, 21, 22, 23, 24>>

BYTES_SP == <<"b", "y", "t", "e", "s", " ">>

ContentRange(start, end, total) ==
    BYTES_SP \o ToStr(start) \o <<"-">> \o ToStr(end) \o <<"/">> \o ToStr(total)

\* an origin that answers HEAD and GET, advertises and honours byte ranges
Compliant ==
    [headOk |-> TRUE, headLength |-> TRUE, acceptRanges |-> "bytes",
     getOk |-> TRUE, ranges |-> "honour", getLength |-> TRUE]

\* the origins a request can meet: each differs from Compliant in one respect
UpstreamConfigs == {
    Compliant,
    [Compliant EXCEPT !.headOk = FALSE],
    [Compliant EXCEPT !.headLength = FALSE],
    [Compliant EXCEPT !.acceptRanges = "none"],
    [Compliant EXCEPT !.acceptRanges = "absent"],
    [Compliant EXCEPT !.getOk = FALSE],
    [Compliant EXCEPT !.ranges = "ignore"],
    [Compliant EXCEPT !.getLength = FALSE],
    [Compliant EXCEPT !.ranges = "ignore", !.getLength = FALSE] }

\* response.ok
Ok(status) == status >= 200 /\ status <= 299

\* the origin's answer to HEAD url
UpstreamHead(u, url) ==
    IF ~u.headOk
    THEN [status |-> 404, contentLength |-> absent, acceptRanges |-> "absent"]
    ELSE [status |-> 200,
          contentLength |-> IF u.headLength THEN ToStr(Len(Content(url))) ELSE absent,
          acceptRanges |-> u.acceptRanges]

\* the origin's answer to GET url with the Range header range (RFC 7233): a
\* Range it cannot read is ignored, an unsatisfiable one is answered 416
UpstreamGet(u, url, range) ==
    LET L == Len(Content(url))
        full == [status |-> 200, contentRange |-> absent,
                 contentLength |-> IF u.getLength THEN ToStr(L) ELSE absent,
                 body |-> Content(url)]
        m == MatchRange(range)
    IN  IF ~u.getOk
        THEN [status |-> 500, contentRange |-> absent, contentLength |-> absent,
              body |-> <<>>]
        ELSE IF range = absent \/ u.ranges = "ignore" \/ m = null THEN full
        ELSE IF m.startStr = <<>> /\ m.endStr = <<>> THEN full
        ELSE LET suffix == m.startStr = <<>>
                 first == IF suffix THEN Max(0, L - parseInt(m.endStr))
                          ELSE parseInt(m.startStr)
                 last == IF suffix \/ m.endStr = <<>> THEN L - 1
                         ELSE Min(parseInt(m.endStr), L - 1)
             IN  IF ~suffix /\ m.endStr # <<>> /\ parseInt(m.endStr) < first
                 THEN full
                 ELSE IF first >= L \/ (suffix /\ parseInt(m.endStr) = 0)
                 THEN [status |-> 416,
                       contentRange |-> BYTES_SP \o <<"*", "/">> \o ToStr(L),
                       contentLength |-> absent, body |-> <<>>]
                 ELSE [status |-> 206,
                       contentRange |-> ContentRange(first, last, L),
                       contentLength |-> IF u.getLength THEN ToStr(last - first + 1)
                                         ELSE absent,
                       body |-> SubSeq(Content(url), first + 1, last + 1)]

-----------------------------------------------------------------------------
(* Hot tier of MP4 chunks (part_002): segmentCache, cleanupCache,          *)
(* getCachedChunk, prefetchMP4Chunk, prefetchMP4Chunks.  A Map is the      *)
(* sequence of its [key, entry] pairs in insertion order.                  *)

\* part_002:16-18, scaled: 500 entries, 4 hours (one tick is 2 hours), 10MB
CACHE_MAX_SIZE == 2
CACHE_EXPIRY_MS == 2
CHUNK_SIZE == 2
\* part_002:160, scaled: the first 100MB
MAX_PREFETCH_BYTES == 4

RECURSIVE MapIndex(_, _)
MapIndex(m, key) ==
    IF m = <<>> THEN 0
    ELSE IF m[Len(m)].key = key /\ MapIndex(SubSeq(m, 1, Len(m) - 1), key) = 0
    THEN Len(m)
    ELSE MapIndex(SubSeq(m, 1, Len(m) - 1), key)

\* Map.get: the entry, or undefined
MapGet(m, key) == IF MapIndex(m, key) = 0 THEN null ELSE m[MapIndex(m, key)].entry

\* Map.set: a present key keeps its place in the iteration order
MapSet(m, key, entry) ==
    IF MapIndex(m, key) = 0 THEN Append(m, [key |-> key, entry |-> entry])
    ELSE [m EXCEPT ![MapIndex(m, key)] = [key |-> key, entry |-> entry]]

\* Map.delete
MapDelete(m, key) ==
    IF MapIndex(m, key) = 0 THEN m
    ELSE SubSeq(m, 1, MapIndex(m, key) - 1) \o SubSeq(m, MapIndex(m, key) + 1, Len(m))

\* the pairs of m whose entry is not older than expiry at time t
RECURSIVE DropExpired(_, _, _)
DropExpired(m, t, expiry) ==
    IF m = <<>> THEN <<>>
    ELSE IF t - Head(m).entry.timestamp > expiry
    THEN DropExpired(Tail(m), t, expiry)
    ELSE <<Head(m)>> \o DropExpired(Tail(m), t, expiry)

\* p put into the sorted sequence s after every pair that is not younger
RECURSIVE InsertByTimestamp(_, _)
InsertByTimestamp(s, p) ==
    IF s = <<>> THEN <<p>>
    ELSE IF Head(s).entry.timestamp <= p.entry.timestamp
    THEN <<Head(s)>> \o InsertByTimestamp(Tail(s), p)
    ELSE <<p>> \o s

\* Array.from(entries()).sort((a, b) => a[1].timestamp - b[1].timestamp)
RECURSIVE SortByTimestamp(_)
SortByTimestamp(m) ==
    IF m = <<>> THEN <<>>
    ELSE InsertByTimestamp(SortByTimestamp(SubSeq(m, 1, Len(m) - 1)), m[Len(m)])

RECURSIVE DeleteAll(_, _)
DeleteAll(m, pairs) ==
    IF pairs = <<>> THEN m
    ELSE DeleteAll(MapDelete(m, Head(pairs).key), Tail(pairs))

EvictNewest(m, maxSize) ==
    IF Len(m) > maxSize
    THEN DeleteAll(m, SubSeq(SortByTimestamp(m), maxSize + 1, Len(m)))
    ELSE m

\* the capacity branch of cleanupCache
EvictOldest(m, maxSize) ==
    IF Len(m) > maxSize
    THEN DeleteAll(m, SubSeq(SortByTimestamp(m), 1, Len(m) - maxSize))
    ELSE m

\* cleanupCache() run at time t
cleanupCache(cache, t) ==
    EvictOldest(DropExpired(cache, t, CACHE_EXPIRY_MS), CACHE_MAX_SIZE)

\* `${url}:${range}`
CacheKey(url, range) == url \o <<":">> \o range

getCachedChunkNoExpiry(cache, disabled, t, url, range) ==
    LET entry == MapGet(cache, CacheKey(url, range)) IN
    IF disabled THEN [entry |-> null, cache |-> cache]
    ELSE [entry |-> entry, cache |-> cache]

\* getCachedChunk(url, range) at time t: what it returns and the Map it leaves
getCachedChunk(cache, disabled, t, url, range) ==
    LET cacheKey == CacheKey(url, range)
        entry == MapGet(cache, cacheKey)
    IN  IF disabled THEN [entry |-> null, cache |-> cache]
        ELSE IF entry # null
        THEN IF t - entry.timestamp > CACHE_EXPIRY_MS
             THEN [entry |-> null, cache |-> MapDelete(cache, cacheKey)]
             ELSE [entry |-> entry, cache |-> cache]
        ELSE [entry |-> null, cache |-> cache]

prefetchMP4ChunkAlways(st, disabled, t, url, start, end) ==
    IF disabled THEN st
    ELSE [cache |-> IF Len(st.cache) >= CACHE_MAX_SIZE
                    THEN cleanupCache(st.cache, t) ELSE st.cache,
          fetches |-> Append(st.fetches,
                             [url |-> url, start |-> start, end |-> end])]

\* prefetchMP4Chunk(url, start, end) up to its await of the upstream fetch:
\* st is the Map and the fetches issued so far by the caller
prefetchMP4ChunkStart(st, disabled, t, url, start, end) ==
    IF disabled THEN st
    ELSE LET swept == IF Len(st.cache) >= CACHE_MAX_SIZE
                      THEN cleanupCache(st.cache, t) ELSE st.cache
             range == ClosedRange(start, end)
             existing == MapGet(swept, CacheKey(url, range))
         IN  IF existing # null /\ t - existing.timestamp <= CACHE_EXPIRY_MS
             THEN [cache |-> swept, fetches |-> st.fetches]
             ELSE [cache |-> swept,
                   fetches |-> Append(st.fetches,
                                      [url |-> url, start |-> start, end |-> end])]

\* the for loop of prefetchMP4Chunks from start on
RECURSIVE PrefetchLoop(_, _, _, _, _, _)
PrefetchLoop(st, disabled, t, url, contentLength, start) ==
    IF start < Min(contentLength, MAX_PREFETCH_BYTES)
    THEN PrefetchLoop(
             prefetchMP4ChunkStart(st, disabled, t, url, start,
                                   Min(start + CHUNK_SIZE - 1, contentLength - 1)),
             disabled, t, url, contentLength, start + CHUNK_SIZE)
    ELSE st

\* prefetchMP4Chunks(url, contentLength) up to its await Promise.all
prefetchMP4Chunks(cache, disabled, t, url, contentLength) ==
    IF disabled THEN [cache |-> cache, fetches |-> <<>>]
    ELSE PrefetchLoop([cache |-> cleanupCache(cache, t), fetches |-> <<>>],
                      disabled, t, url, contentLength, 0)

\* prefetchMP4Chunk after its fetch answered resp at time t
prefetchMP4ChunkStore(cache, t, fetch, resp) ==
    IF ~Ok(resp.status) THEN cache
    ELSE MapSet(cache, CacheKey(fetch.url, ClosedRange(fetch.start, fetch.end)),
                [data |-> resp.body,
                 headers |-> [contentRange |-> resp.contentRange,
                              contentLength |-> resp.contentLength],
                 timestamp |-> t,
                 range |-> ClosedRange(fetch.start, fetch.end)])

-----------------------------------------------------------------------------
(* Encodings: UTF-8 of ASCII text, base64, gzip, JSON *)

\* the characters of code 32 to 126, in code order; the grave accent (code
\* 96) cannot be written as a string here and no text of the model has it
ASCII ==
    <<" ", "!", "\"", "#", "$", "%", "&", "'", "(", ")", "*", "+", ",",
      "-", ".", "/", "0", "1", "2", "3", "4", "5", "6", "7", "8", "9", ":",
      ";", "<", "=", ">", "?", "@", "A", "B", "C", "D", "E", "F", "G", "H",
      "I", "J", "K", "L", "M", "N", "O", "P", "Q", "R", "S", "T", "U", "V",
      "W", "X", "Y", "Z", "[", "\\", "]", "^", "_", "grave", "a", "b", "c",
      "d", "e", "f", "g", "h", "i", "j", "k", "l", "m", "n", "o", "p", "q",
      "r", "s", "t", "u", "v", "w", "x", "y", "z", "{", "|", "}", "~">>

\* Buffer.from(text): the bytes of an ASCII text
RECURSIVE Utf8(_)
Utf8(text) ==
    IF text = <<>> THEN <<>>
    ELSE <<31 + CHOOSE i \in 1..Len(ASCII) : ASCII[i] = Head(text)>> \o Utf8(Tail(text))

\* the base64 alphabet
BASE64 ==
    <<"A", "B", "C", "D", "E", "F", "G", "H", "I", "J", "K", "L", "M", "N",
      "O", "P", "Q", "R", "S", "T", "U", "V", "W", "X", "Y", "Z", "a", "b",
      "c", "d", "e", "f", "g", "h", "i", "j", "k", "l", "m", "n", "o", "p",
      "q", "r", "s", "t", "u", "v", "w", "x", "y", "z", "0", "1", "2", "3",
      "4", "5", "6", "7", "8", "9", "+", "/">>

\* buffer.toString('base64')
RECURSIVE Base64Encode(_)
Base64Encode(bytes) ==
    IF bytes = <<>> THEN <<>>
    ELSE IF Len(bytes) = 1
    THEN <<BASE64[(bytes[1] \div 4) + 1], BASE64[(bytes[1] % 4) * 16 + 1], "=", "=">>
    ELSE IF Len(bytes) = 2
    THEN <<BASE64[(bytes[1] \div 4) + 1],
           BASE64[(bytes[1] % 4) * 16 + (bytes[2] \div 16) + 1],
           BASE64[(bytes[2] % 16) * 4 + 1], "=">>
    ELSE <<BASE64[(bytes[1] \div 4) + 1],
           BASE64[(bytes[1] % 4) * 16 + (bytes[2] \div 16) + 1],
           BASE64[(bytes[2] % 16) * 4 + (bytes[3] \div 64) + 1],
           BASE64[(bytes[3] % 64) + 1]>>
         \o Base64Encode(SubSeq(bytes, 4, Len(bytes)))

\* the six bits a base64 character stands for, -1 for any other character;
\* the decoder of Buffer also reads the URL safe alphabet
Base64Value(c) ==
    IF \E i \in 1..64 : BASE64[i] = c THEN (CHOOSE i \in 1..64 : BASE64[i] = c) - 1
    ELSE IF c = "-" THEN 62
    ELSE IF c = "_" THEN 63
    ELSE -1

\* the six bit values of text up to its first "=", other characters skipped
RECURSIVE Sextets(_)
Sextets(text) ==
    IF text = <<>> \/ Head(text) = "=" THEN <<>>
    ELSE IF Base64Value(Head(text)) < 0 THEN Sextets(Tail(text))
    ELSE <<Base64Value(Head(text))>> \o Sextets(Tail(text))

RECURSIVE SextetsToBytes(_)
SextetsToBytes(s) ==
    IF Len(s) < 2 THEN <<>>
    ELSE IF Len(s) = 2 THEN <<s[1] * 4 + (s[2] \div 16)>>
    ELSE IF Len(s) = 3
    THEN <<s[1] * 4 + (s[2] \div 16), (s[2] % 16) * 16 + (s[3] \div 4)>>
    ELSE <<s[1] * 4 + (s[2] \div 16), (s[2] % 16) * 16 + (s[3] \div 4),
           (s[3] % 4) * 64 + s[4]>>
         \o SextetsToBytes(SubSeq(s, 5, Len(s)))

\* Buffer.from(text, 'base64')
Base64Decode(text) == SextetsToBytes(Sextets(text))

RECURSIVE Sum(_)
Sum(bytes) == IF bytes = <<>> THEN 0 ELSE Head(bytes) + Sum(Tail(bytes))

\* the gzip member header: magic 1f 8b, method 8
GZIP_HEADER == <<31, 139, 8>>

\* gzip(bytes): header, the bytes as a stored block, then a checksum and the
\* length, each in one byte
Gzip(bytes) == GZIP_HEADER \o bytes \o <<(Sum(bytes) % 256), (Len(bytes) % 256)>>

\* gunzip(bytes): the content, or the error it throws
Gunzip(bytes) ==
    IF /\ Len(bytes) >= 5
       /\ SubSeq(bytes, 1, 3) = GZIP_HEADER
       /\ bytes[Len(bytes) - 1] = Sum(SubSeq(bytes, 4, Len(bytes) - 2)) % 256
       /\ bytes[Len(bytes)] = (Len(bytes) - 5) % 256
    THEN [ok |-> TRUE, data |-> SubSeq(bytes, 4, Len(bytes) - 2)]
    ELSE [ok |-> FALSE]

\* JSON.stringify of an object given as its members in order
JSONstringify(members) == [json |-> members]

\* JSON.parse(text): the object, or the error it throws
JSONparse(text) ==
    IF "json" \in DOMAIN text THEN [ok |-> TRUE, value |-> text.json]
    ELSE [ok |-> FALSE]

\* object[name]: the member's value when the object has it
RECURSIVE Member(_, _)
Member(members, name) ==
    IF members = <<>> THEN [defined |-> FALSE]
    ELSE IF Head(members).name = name
    THEN [defined |-> TRUE, value |-> Head(members).value]
    ELSE Member(Tail(members), name)

-----------------------------------------------------------------------------
(* Warm tier (redis-cache.ts): RedisCache over the keyspace of the server  *)

\* redis-cache.ts:25, in ticks of 2 hours
CACHE_EXPIRY_SECONDS == 1

\* `ts_segment:${Buffer.from(url).toString('base64')}`
getCacheKey(url) ==
    <<"t", "s", "_", "s", "e", "g", "m", "e", "n", "t", ":">>
    \o Base64Encode(Utf8(url))

\* `mp4_chunk:${Buffer.from(url).toString('base64')}:chunk_${chunkIndex}`
getMP4ChunkKey(url, chunkIndex) ==
    <<"m", "p", "4", "_", "c", "h", "u", "n", "k", ":">>
    \o Base64Encode(Utf8(url))
    \o <<":", "c", "h", "u", "n", "k", "_">> \o ToStr(chunkIndex)

\* the keyspace of the Redis server is a function of the keys it holds
EmptyStore == [key \in {} |-> null]

\* client.get(key) at time t: the record of the key, or nil
ClientGet(store, t, key) ==
    IF key \in DOMAIN store /\ t < store[key].expireAt THEN store[key] ELSE null

ClientSetNX(store, t, key, seconds, value, written) ==
    [k \in DOMAIN store \cup {key} |->
        IF k = key
        THEN [value |-> IF key \in DOMAIN store THEN store[key].value ELSE value,
              expireAt |-> t + seconds, written |-> written, by |-> "set"]
        ELSE store[k]]

\* client.setEx(key, seconds, value) at time t; written is the entry the
\* value was made from
ClientSetEx(store, t, key, seconds, value, written) ==
    [k \in DOMAIN store \cup {key} |->
        IF k = key
        THEN [value |-> value, expireAt |-> t + seconds, written |-> written,
              by |-> "set"]
        ELSE store[k]]

\* client.del(key)
ClientDel(store, key) == [k \in DOMAIN store \ {key} |-> store[k]]

\* the server drops the keys that have expired at time t
Expire(store, t) ==
    [key \in {k \in DOMAIN store : t < store[k].expireAt} |-> store[key]]

\* the envelope of version 2 that set and setMP4Chunk store
dataToStore(entry) ==
    <<[name |-> "data", value |-> Base64Encode(Gzip(entry.data))],
      [name |-> "headers", value |-> entry.headers],
      [name |-> "timestamp", value |-> entry.timestamp],
      [name |-> "version", value |-> 2]>>

WriteEnvelopeUncompressed(connected, rejects, store, t, key, entry) ==
    IF ~connected \/ rejects THEN store
    ELSE ClientSetEx(store, t, key, CACHE_EXPIRY_SECONDS,
                     JSONstringify(<<[name |-> "data",
                                      value |-> Base64Encode(entry.data)],
                                     [name |-> "headers", value |-> entry.headers],
                                     [name |-> "timestamp", value |-> entry.timestamp],
                                     [name |-> "version", value |-> 2]>>),
                     entry)

\* set and setMP4Chunk from the computed key on: the keyspace they leave;
\* rejects tells whether the command of the client fails, which the catch
\* logs
WriteEnvelope(connected, rejects, store, t, key, entry) ==
    IF ~connected \/ rejects THEN store
    ELSE ClientSetEx(store, t, key, CACHE_EXPIRY_SECONDS,
                     JSONstringify(dataToStore(entry)), entry)

\* what a read reports: the entry or null, the envelope version read, and
\* whether gunzip was called
Read(entry, version, gunzipped) ==
    [entry |-> entry, version |-> version, gunzipped |-> gunzipped]

Miss == Read(null, Member(<<>>, "version"), FALSE)

\* the CacheEntry made of the envelope and the final bytes
Entry(envelope, finalData) ==
    [data |-> finalData,
     headers |-> Member(envelope, "headers").value,
     timestamp |-> Member(envelope, "timestamp").value]

DecodeEnvelopeAlwaysGunzip(envelope, rawData) ==
    IF Gunzip(rawData).ok
    THEN Read(Entry(envelope, Gunzip(rawData).data), Member(envelope, "version"), TRUE)
    ELSE Read(null, Member(envelope, "version"), TRUE)

\* get and getMP4Chunk from the parsed envelope on
DecodeEnvelope(envelope, rawData) ==
    IF Member(envelope, "version").defined /\ Member(envelope, "version").value = 2
    THEN IF Gunzip(rawData).ok
         THEN Read(Entry(envelope, Gunzip(rawData).data),
                   Member(envelope, "version"), TRUE)
         ELSE Read(null, Member(envelope, "version"), TRUE)
    ELSE Read(Entry(envelope, rawData), Member(envelope, "version"), FALSE)

\* get and getMP4Chunk from the value client.get returned on
ParseEnvelope(data) ==
    IF data = null THEN Miss
    ELSE IF ~JSONparse(data.value).ok THEN Miss
    ELSE DecodeEnvelope(JSONparse(data.value).value,
                        Base64Decode(Member(JSONparse(data.value).value, "data").value))

ReadEnvelopeUnguarded(connected, rejects, store, t, key) ==
    ParseEnvelope(ClientGet(store, t, key))

\* get and getMP4Chunk from the computed key on; rejects tells whether the
\* command of the client fails, which the catch turns into null
ReadEnvelope(connected, rejects, store, t, key) ==
    IF ~connected THEN Miss
    ELSE IF rejects THEN Miss
    ELSE ParseEnvelope(ClientGet(store, t, key))

\* RedisCache.get(url)
RedisCache_get(connected, rejects, store, t, url) ==
    ReadEnvelope(connected, rejects, store, t, getCacheKey(url))

\* RedisCache.set(url, entry)
RedisCache_set(connected, rejects, store, t, url, entry) ==
    WriteEnvelope(connected, rejects, store, t, getCacheKey(url), entry)

\* RedisCache.delete(url)
RedisCache_delete(connected, rejects, store, url) ==
    IF ~connected \/ rejects THEN store ELSE ClientDel(store, getCacheKey(url))

\* RedisCache.getMP4Chunk(url, chunkIndex)
RedisCache_getMP4Chunk(connected, rejects, store, t, url, chunkIndex) ==
    ReadEnvelope(connected, rejects, store, t, getMP4ChunkKey(url, chunkIndex))

\* RedisCache.setMP4Chunk(url, chunkIndex, entry)
RedisCache_setMP4Chunk(connected, rejects, store, t, url, chunkIndex, entry) ==
    WriteEnvelope(connected, rejects, store, t, getMP4ChunkKey(url, chunkIndex), entry)

\* RedisCache.deleteMP4Chunk(url, chunkIndex)
RedisCache_deleteMP4Chunk(connected, rejects, store, url, chunkIndex) ==
    IF ~connected \/ rejects
    THEN store
    ELSE ClientDel(store, getMP4ChunkKey(url, chunkIndex))

-----------------------------------------------------------------------------
(* MP4 request handlers: proxyMP4 of s.ts, of part_003 (range negotiating), *)
(* and the two of part_002 (cache backed; range forwarding)                 *)

\* sendError(event, createError({statusCode}))
ErrorResponse(statusCode) ==
    [status |-> statusCode, contentRange |-> absent, contentLength |-> absent,
     body |-> <<>>, from |-> "error"]

\* contentLength, acceptRanges, start, end and isPartial as proxyMP4 computes
\* them from the HEAD response and the client's Range header
Negotiate(head, rangeHeader, defaultAcceptRanges) ==
    LET contentLength == parseInt(IF head.contentLength = absent THEN <<"0">>
                                  ELSE head.contentLength)
        acceptRanges == IF head.acceptRanges = "absent" THEN defaultAcceptRanges
                        ELSE head.acceptRanges
        range == IF rangeHeader # absent /\ acceptRanges = "bytes"
                 THEN parseRangeHeader(rangeHeader, contentLength) ELSE null
    IN  [contentLength |-> contentLength,
         acceptRanges |-> acceptRanges,
         isPartial |-> range # null,
         start |-> IF range # null THEN range.start ELSE 0,
         end |-> IF range # null THEN range.end ELSE contentLength - 1]

UpstreamRangeNone(neg) == absent

\* the Range header of the upstream GET
UpstreamRange(neg) ==
    IF neg.isPartial THEN ClosedRange(neg.start, neg.end) ELSE absent

\* the client response built from the upstream GET response
Relay(neg, resp) ==
    IF ~Ok(resp.status) /\ resp.status # 206 THEN ErrorResponse(500)
    ELSE IF neg.isPartial
    THEN [status |-> 206,
          contentRange |-> IF resp.contentRange # absent THEN resp.contentRange
                           ELSE ContentRange(neg.start, neg.end, neg.contentLength),
          contentLength |-> IF resp.contentLength # absent THEN resp.contentLength
                            ELSE ToStr(neg.end - neg.start + 1),
          body |-> resp.body, from |-> "upstream"]
    ELSE [status |-> 200, contentRange |-> absent,
          contentLength |-> ToStr(neg.contentLength),
          body |-> resp.body, from |-> "upstream"]

\* proxyMP4 with the Accept-Ranges default of the variant
proxyMP4Negotiating(u, url, rangeHeader, defaultAcceptRanges) ==
    LET head == UpstreamHead(u, url)
        neg == Negotiate(head, rangeHeader, defaultAcceptRanges)
    IN  IF ~Ok(head.status) THEN ErrorResponse(500)
        ELSE Relay(neg, UpstreamGet(u, url, UpstreamRange(neg)))

\* the response to a cache hit
ServeCached(neg, cachedChunk) ==
    [status |-> 206,
     contentRange |-> ContentRange(neg.start, neg.end, neg.contentLength),
     contentLength |-> ToStr(Len(cachedChunk.data)),
     body |-> cachedChunk.data, from |-> "cache"]

\* proxyMP4 that forwards the client's Range header verbatim
proxyMP4Forwarding(u, url, rangeHeader) ==
    LET resp == UpstreamGet(u, url, rangeHeader)
        contentLength == parseInt(IF resp.contentLength = absent THEN <<"0">>
                                  ELSE resp.contentLength)
    IN  IF ~Ok(resp.status) /\ resp.status # 206 THEN ErrorResponse(500)
        ELSE IF resp.status = 206
        THEN [status |-> 206, contentRange |-> resp.contentRange,
              contentLength |-> ToStr(contentLength),
              body |-> resp.body, from |-> "upstream"]
        ELSE [status |-> 200, contentRange |-> absent,
              contentLength |-> ToStr(contentLength),
              body |-> resp.body, from |-> "upstream"]

Handlers == {"s.ts", "part_003", "part_002.cached", "part_002.forwarding"}

\* the longest the upstream fetches of the prefetcher may queue up
MaxInflight == 2
\* the last instant of the clock, in ticks
MaxTime == 3

RECURSIVE SeqToBag(_)
SeqToBag(s) == IF s = <<>> THEN EmptyBag ELSE SetToBag({Head(s)}) (+) SeqToBag(Tail(s))

\* no handler is running: the event loop may run its next callback
Idle ==
    /\ request = null /\ lastGet = null /\ warm = null /\ playlist = null
    /\ strategy = null

\* a request as the handler received it
Request(url, rangeHeader) == [url |-> url, rangeHeader |-> rangeHeader]

ProxyMP4_s(url, rangeHeader) ==
    /\ Idle
    /\ deployed = "s.ts"
    /\ request' = Request(url, rangeHeader)
    /\ response' = proxyMP4Negotiating(upstream, url, rangeHeader, "bytes")
    /\ UNCHANGED <<segmentCache, now, inflight, scheduled, lastGet, tsSegmentCache,
                   cacheDisabled, upstream, deployed>>
    /\ UNCHANGED <<rangeVars, warmVars, playlistVars, strategyVars>>

ProxyMP4_part003(url, rangeHeader) ==
    /\ Idle
    /\ deployed = "part_003"
    /\ request' = Request(url, rangeHeader)
    /\ response' = proxyMP4Negotiating(upstream, url, rangeHeader, "none")
    /\ UNCHANGED <<segmentCache, now, inflight, scheduled, lastGet, tsSegmentCache,
                   cacheDisabled, upstream, deployed>>
    /\ UNCHANGED <<rangeVars, warmVars, playlistVars, strategyVars>>

ProxyMP4Forwarding(url, rangeHeader) ==
    /\ Idle
    /\ deployed = "part_002.forwarding"
    /\ request' = Request(url, rangeHeader)
    /\ response' = proxyMP4Forwarding(upstream, url, rangeHeader)
    /\ UNCHANGED <<segmentCache, now, inflight, scheduled, lastGet, tsSegmentCache,
                   cacheDisabled, upstream, deployed>>
    /\ UNCHANGED <<rangeVars, warmVars, playlistVars, strategyVars>>

\* proxyMP4 of part_002 from its upstream GET on: the response, and whether
\* the prefetch is scheduled
ServeUpstream(disabled, neg, relayed) ==
    [response |-> relayed,
     schedule |-> relayed.from # "error" /\ ~disabled /\ neg.contentLength > 0]

\* the cache lookup of a partial request
LookUp(cache, disabled, t, url, neg) ==
    IF neg.isPartial /\ ~disabled
    THEN getCachedChunk(cache, disabled, t, url, ClosedRange(neg.start, neg.end))
    ELSE [entry |-> null, cache |-> cache]

\* what a hot tier lookup of key at time t found in cache, returned and left
Looked(tier, cache, t, key, got) ==
    [tier |-> tier, key |-> key, at |-> t,
     found |-> MapGet(cache, key),
     returned |-> got.entry,
     after |-> MapGet(got.cache, key)]

\* proxyMP4 of part_002 after its cache lookup returned got
AfterLookUp(u, cache, disabled, t, url, neg, got) ==
    [cache |-> got.cache,
     contentLength |-> neg.contentLength,
     lookup |-> IF neg.isPartial /\ ~disabled
                THEN Looked("mp4", cache, t,
                            CacheKey(url, ClosedRange(neg.start, neg.end)), got)
                ELSE null,
     outcome |-> IF got.entry # null
                 THEN [response |-> ServeCached(neg, got.entry), schedule |-> FALSE]
                 ELSE ServeUpstream(disabled, neg,
                                    Relay(neg, UpstreamGet(u, url, UpstreamRange(neg))))]

\* proxyMP4 of part_002 after its HEAD was answered ok
AfterHead(u, cache, disabled, t, url, neg) ==
    AfterLookUp(u, cache, disabled, t, url, neg, LookUp(cache, disabled, t, url, neg))

\* the cache backed proxyMP4 at time t: the Map it leaves, the content length
\* it read, its cache lookup if it made one, its response and whether it
\* schedules the prefetch
proxyMP4Cached(u, cache, disabled, t, url, rangeHeader) ==
    IF ~Ok(UpstreamHead(u, url).status)
    THEN [cache |-> cache, contentLength |-> 0, lookup |-> null,
          outcome |-> [response |-> ErrorResponse(500), schedule |-> FALSE]]
    ELSE AfterHead(u, cache, disabled, t, url,
                   Negotiate(UpstreamHead(u, url), rangeHeader, "bytes"))

\* the job that setTimeout queues
PrefetchJob(url, contentLength) == [url |-> url, contentLength |-> contentLength]

\* the cache backed proxyMP4 handles a request: the HEAD and GET answers are
\* those of upstream, the cache is read at time now
ProxyMP4Cached(url, rangeHeader) ==
    /\ Idle
    /\ deployed = "part_002.cached"
    /\ request' = Request(url, rangeHeader)
    /\ \E done \in {proxyMP4Cached(upstream, segmentCache, cacheDisabled, now,
                                   url, rangeHeader)} :
           /\ segmentCache' = done.cache
           /\ lastGet' = done.lookup
           /\ response' = done.outcome.response
           /\ scheduled' = IF done.outcome.schedule
                           THEN scheduled \cup
                                {PrefetchJob(url, done.contentLength)}
                           ELSE scheduled
    /\ UNCHANGED <<now, inflight, tsSegmentCache, cacheDisabled, upstream, deployed>>
    /\ UNCHANGED <<rangeVars, warmVars, playlistVars, strategyVars>>

\* the setTimeout callback of proxyMP4: prefetchMP4Chunks up to its await
RunPrefetch(job) ==
    /\ job \in scheduled
    /\ LET st == prefetchMP4Chunks(segmentCache, cacheDisabled, now, job.url,
                                   job.contentLength)
       IN  /\ BagCardinality(inflight (+) SeqToBag(st.fetches)) <= MaxInflight
           /\ segmentCache' = st.cache
           /\ inflight' = inflight (+) SeqToBag(st.fetches)
    /\ scheduled' = scheduled \ {job}
    /\ UNCHANGED <<now, lastGet, tsSegmentCache, cacheDisabled, upstream, deployed,
                   request, response>>
    /\ UNCHANGED <<rangeVars, warmVars, playlistVars, strategyVars>>

\* the upstream answers a prefetch: prefetchMP4Chunk resumes after its await
PrefetchArrives(fetch) ==
    /\ BagIn(fetch, inflight)
    /\ inflight' = inflight (-) SetToBag({fetch})
    /\ segmentCache' = prefetchMP4ChunkStore(
                           segmentCache, now, fetch,
                           UpstreamGet(upstream, fetch.url,
                                       ClosedRange(fetch.start, fetch.end)))
    /\ UNCHANGED <<now, scheduled, lastGet, tsSegmentCache, cacheDisabled, upstream,
                   deployed, request, response>>
    /\ UNCHANGED <<rangeVars, warmVars, playlistVars, strategyVars>>

PrefetchFailsRequest(fetch) ==
    /\ BagIn(fetch, inflight)
    /\ inflight' = inflight (-) SetToBag({fetch})
    /\ response' = IF response = null THEN null ELSE ErrorResponse(500)
    /\ UNCHANGED <<segmentCache, now, scheduled, lastGet, tsSegmentCache,
                   cacheDisabled, upstream, deployed, request>>
    /\ UNCHANGED <<rangeVars, warmVars, playlistVars, strategyVars>>

\* the fetch of a prefetch rejects: the catch of prefetchMP4Chunk logs it
PrefetchFails(fetch) ==
    /\ BagIn(fetch, inflight)
    /\ inflight' = inflight (-) SetToBag({fetch})
    /\ UNCHANGED <<segmentCache, now, scheduled, lastGet, tsSegmentCache,
                   cacheDisabled, upstream, deployed, request, response>>
    /\ UNCHANGED <<rangeVars, warmVars, playlistVars, strategyVars>>

\* setInterval(cleanupCache, 30 * 60 * 1000), and handleCacheStats
CleanupCache ==
    /\ Idle
    /\ segmentCache' = cleanupCache(segmentCache, now)
    /\ UNCHANGED <<now, inflight, scheduled, lastGet, tsSegmentCache, cacheDisabled,
                   upstream, deployed, request, response>>
    /\ UNCHANGED <<rangeVars, warmVars, playlistVars, strategyVars>>

\* the origin starts to answer as u does
OriginChanges(u) ==
    /\ upstream # u
    /\ upstream' = u
    /\ UNCHANGED <<segmentCache, now, inflight, scheduled, lastGet, tsSegmentCache,
                   cacheDisabled, deployed, request, response>>
    /\ UNCHANGED <<rangeVars, warmVars, playlistVars, strategyVars>>

\* Date.now() advances; the Redis server drops the keys that expire
Tick ==
    /\ Idle
    /\ now < MaxTime
    /\ now' = now + 1
    /\ redis' = Expire(redis, now + 1)
    /\ UNCHANGED <<segmentCache, inflight, scheduled, lastGet, tsSegmentCache,
                   cacheDisabled, upstream, deployed, request, response>>
    /\ UNCHANGED <<isConnected, warm, jobVars>>
    /\ UNCHANGED <<rangeVars, playlistVars, strategyVars>>

\* the running handler or call returns: h3 sends the response and drops the
\* event
Return ==
    /\ ~Idle
    /\ request' = null
    /\ response' = null
    /\ lastGet' = null
    /\ warm' = null
    /\ playlist' = null
    /\ strategy' = null
    /\ UNCHANGED <<segmentCache, now, inflight, scheduled, tsSegmentCache,
                   cacheDisabled, upstream, deployed>>
    /\ UNCHANGED <<redis, isConnected, jobVars>>
    /\ UNCHANGED rangeVars

-----------------------------------------------------------------------------
(* Hot tier of TS segments (m3u8-proxy.ts).  The Map has no writer in the  *)
(* module, so it stays as constructed.                                     *)

\* m3u8-proxy.ts:50, in ticks of 2 hours
TS_CACHE_EXPIRY_MS == 1

\* getCachedSegment(url) at time t: what it returns and the Map it leaves
getCachedSegment(cache, disabled, t, url) ==
    LET entry == MapGet(cache, url) IN
    IF disabled THEN [entry |-> null, cache |-> cache]
    ELSE IF entry # null
    THEN IF t - entry.timestamp > TS_CACHE_EXPIRY_MS
         THEN [entry |-> null, cache |-> MapDelete(cache, url)]
         ELSE [entry |-> entry, cache |-> cache]
    ELSE [entry |-> null, cache |-> cache]

GetCachedSegment(url) ==
    /\ Idle
    /\ \E got \in {getCachedSegment(tsSegmentCache, config.DISABLE_CACHE, now, url)} :
           /\ tsSegmentCache' = got.cache
           /\ lastGet' = Looked("ts", tsSegmentCache, now, url, got)
    /\ UNCHANGED <<segmentCache, now, inflight, scheduled, cacheDisabled>>
    /\ UNCHANGED <<rangeVars, mp4Vars, warmVars, playlistVars, strategyVars>>

-----------------------------------------------------------------------------
(* Warm tier calls *)

\* the entries the segment and chunk handlers cache at time t: an empty
\* payload, a short one and one that itself starts like a gzip member, without
\* and with a header
WarmEntries(t) ==
    {[data |-> p, headers |-> h, timestamp |-> t] :
        p \in {<<>>, <<72, 105>>, <<31, 139, 8, 0, 0>>},
        h \in {<<>>, <<[name |-> "content-type", value |-> "video/mp2t"]>>}}

TS_URL == <<"h", "t", "t", "p", ":", "/", "/", "h", "/", "1", ".", "t", "s">>
ChunkIndexes == {0, 1}

\* a key as an earlier release or another writer left it, expiring at tick 1
Left(key, value, written) ==
    (key :> [value |-> value, expireAt |-> 1, written |-> written, by |-> "other"])

\* the entry earlier releases stored uncompressed
LegacyEntry == [data |-> <<7, 8, 9>>, headers |-> <<>>, timestamp |-> 0]

LegacyMembers ==
    <<[name |-> "data", value |-> Base64Encode(LegacyEntry.data)],
      [name |-> "headers", value |-> LegacyEntry.headers],
      [name |-> "timestamp", value |-> LegacyEntry.timestamp]>>

\* the keyspace the process finds: empty, or one key holding an envelope of
\* version 1, one without version, one of version 2 that is not gzip data, or
\* a value that is not JSON
InitialStores ==
    {EmptyStore}
    \cup {Left(key, JSONstringify(LegacyMembers \o <<[name |-> "version", value |-> 1]>>),
               LegacyEntry) : key \in {getCacheKey(TS_URL), getMP4ChunkKey(TS_URL, 0)}}
    \cup {Left(key, JSONstringify(LegacyMembers), LegacyEntry) :
               key \in {getCacheKey(TS_URL), getMP4ChunkKey(TS_URL, 0)}}
    \cup {Left(getCacheKey(TS_URL),
               JSONstringify(LegacyMembers \o <<[name |-> "version", value |-> 2]>>),
               null),
          Left(getCacheKey(TS_URL), [garbage |-> TRUE], null)}

\* the client's 'connect' event
Connect ==
    /\ ~isConnected
    /\ isConnected' = TRUE
    /\ UNCHANGED <<redis, warm, jobVars>>
    /\ UNCHANGED <<rangeVars, hotVars, mp4Vars, playlistVars, strategyVars>>

\* the client's 'error' and 'disconnect' events
Disconnect ==
    /\ isConnected
    /\ isConnected' = FALSE
    /\ UNCHANGED <<redis, warm, jobVars>>
    /\ UNCHANGED <<rangeVars, hotVars, mp4Vars, playlistVars, strategyVars>>

\* what a call of the warm tier did: the key, the entry written, and for a
\* read the record the key held and what the read reported; whether the tier
\* was connected and whether the command of the client failed
Called(op, key, entry, stored, read, connected, rejects) ==
    [op |-> op, key |-> key, entry |-> entry, stored |-> stored, read |-> read,
     connected |-> connected, rejects |-> rejects]

RedisGet(url, rejects) ==
    /\ Idle
    /\ warm' = Called("get", getCacheKey(url), null,
                      ClientGet(redis, now, getCacheKey(url)),
                      RedisCache_get(isConnected, rejects, redis, now, url),
                      isConnected, rejects)
    /\ UNCHANGED <<redis, isConnected, jobVars>>
    /\ UNCHANGED <<rangeVars, hotVars, mp4Vars, playlistVars, strategyVars>>

RedisSet(url, entry, rejects) ==
    /\ Idle
    /\ redis' = RedisCache_set(isConnected, rejects, redis, now, url, entry)
    /\ warm' = Called("set", getCacheKey(url), entry, null, Miss, isConnected, rejects)
    /\ UNCHANGED <<isConnected, jobVars>>
    /\ UNCHANGED <<rangeVars, hotVars, mp4Vars, playlistVars, strategyVars>>

RedisDelete(url, rejects) ==
    /\ Idle
    /\ redis' = RedisCache_delete(isConnected, rejects, redis, url)
    /\ warm' = Called("delete", getCacheKey(url), null, null, Miss, isConnected,
                      rejects)
    /\ UNCHANGED <<isConnected, jobVars>>
    /\ UNCHANGED <<rangeVars, hotVars, mp4Vars, playlistVars, strategyVars>>

RedisGetMP4Chunk(url, chunkIndex, rejects) ==
    /\ Idle
    /\ warm' = Called("get", getMP4ChunkKey(url, chunkIndex), null,
                      ClientGet(redis, now, getMP4ChunkKey(url, chunkIndex)),
                      RedisCache_getMP4Chunk(isConnected, rejects, redis, now, url,
                                             chunkIndex),
                      isConnected, rejects)
    /\ UNCHANGED <<redis, isConnected, jobVars>>
    /\ UNCHANGED <<rangeVars, hotVars, mp4Vars, playlistVars, strategyVars>>

RedisSetMP4Chunk(url, chunkIndex, entry, rejects) ==
    /\ Idle
    /\ redis' = RedisCache_setMP4Chunk(isConnected, rejects, redis, now, url,
                                       chunkIndex, entry)
    /\ warm' = Called("set", getMP4ChunkKey(url, chunkIndex), entry, null, Miss,
                      isConnected, rejects)
    /\ UNCHANGED <<isConnected, jobVars>>
    /\ UNCHANGED <<rangeVars, hotVars, mp4Vars, playlistVars, strategyVars>>

RedisDeleteMP4Chunk(url, chunkIndex, rejects) ==
    /\ Idle
    /\ redis' = RedisCache_deleteMP4Chunk(isConnected, rejects, redis, url, chunkIndex)
    /\ warm' = Called("delete", getMP4ChunkKey(url, chunkIndex), null, null, Miss,
                      isConnected, rejects)
    /\ UNCHANGED <<isConnected, jobVars>>
    /\ UNCHANGED <<rangeVars, hotVars, mp4Vars, playlistVars, strategyVars>>

-----------------------------------------------------------------------------
(* Playlist rewrite (m3u8-proxy.ts): proxyM3U8 *)

\* text.indexOf(pattern), 1-based; 0 when pattern does not occur
IndexOf(text, pattern) ==
    LET hits == {i \in 1..(Len(text) - Len(pattern) + 1) :
                    SubSeq(text, i, i + Len(pattern) - 1) = pattern}
    IN IF hits = {} THEN 0 ELSE CHOOSE i \in hits : \A j \in hits : i <= j

\* text.split(sep)
RECURSIVE Split(_, _)
Split(text, sep) ==
    IF IndexOf(text, sep) = 0 THEN <<text>>
    ELSE <<SubSeq(text, 1, IndexOf(text, sep) - 1)>>
         \o Split(From(text, IndexOf(text, sep) + Len(sep)), sep)

\* lines.join(sep)
RECURSIVE Join(_, _)
Join(lines, sep) ==
    IF lines = <<>> THEN <<>>
    ELSE IF Len(lines) = 1 THEN lines[1]
    ELSE lines[1] \o sep \o Join(Tail(lines), sep)

\* the characters the regular expression class \s and trim() take for space
WhiteSpace == {" ", "\t", "\r", "\n"}

\* line.trim()
RECURSIVE Trim(_)
Trim(text) ==
    IF text = <<>> THEN text
    ELSE IF Head(text) \in WhiteSpace THEN Trim(Tail(text))
    ELSE IF text[Len(text)] \in WhiteSpace THEN Trim(SubSeq(text, 1, Len(text) - 1))
    ELSE text

\* JSON.stringify of an object of string members, as text
RECURSIVE JSONtext(_)
JSONtext(members) ==
    IF members = <<>> THEN <<"{", "}">>
    ELSE <<"{", "\"">> \o Head(members).name \o <<"\"", ":", "\"">>
         \o Head(members).value \o <<"\"">>
         \o (IF Len(members) = 1 THEN <<"}">>
             ELSE <<",">> \o Tail(JSONtext(Tail(members))))

\* encodeURIComponent(text): letters, digits and - _ . ! ~ * ' ( ) are kept,
\* any other character becomes % and its code in two hexadecimal digits
RECURSIVE encodeURIComponent(_)
encodeURIComponent(text) ==
    IF text = <<>> THEN <<>>
    ELSE (IF \/ \E i \in 1..62 : BASE64[i] = Head(text)
             \/ Head(text) \in {"-", "_", ".", "!", "~", "*", "'", "(", ")"}
          THEN <<Head(text)>>
          ELSE <<"%", (Digits \o <<"A", "B", "C", "D", "E", "F">>)
                          [(Utf8(<<Head(text)>>)[1] \div 16) + 1],
                 (Digits \o <<"A", "B", "C", "D", "E", "F">>)
                          [(Utf8(<<Head(text)>>)[1] % 16) + 1]>>)
         \o encodeURIComponent(Tail(text))

\* scheme, host and path of an absolute http(s) URL
URLParts(url) ==
    LET scheme == IF StartsWith(url, <<"h", "t", "t", "p", "s", ":", "/", "/">>)
                  THEN <<"h", "t", "t", "p", "s", ":">>
                  ELSE <<"h", "t", "t", "p", ":">>
        rest == From(url, Len(scheme) + 3)
        slash == IndexOf(rest, <<"/">>)
    IN [scheme |-> scheme,
        host |-> IF slash = 0 THEN rest ELSE SubSeq(rest, 1, slash - 1),
        path |-> IF slash = 0 THEN <<"/">> ELSE From(rest, slash)]

\* parseURL(req_url, baseUrl) with a base: new URL(req_url, baseUrl).href for
\* an http(s) base and a reference that is absolute, scheme relative, root
\* relative or a relative path without dot segments; ok is FALSE where the
\* constructor throws (no host), and parseURL with it
parseURL(req_url, baseUrl) ==
    LET input == Trim(req_url)
        target ==
            IF StartsWith(input, <<"h", "t", "t", "p", ":", "/", "/">>)
               \/ StartsWith(input, <<"h", "t", "t", "p", "s", ":", "/", "/">>)
            THEN URLParts(input)
            ELSE IF StartsWith(input, <<"/", "/">>)
            THEN URLParts(URLParts(baseUrl).scheme \o input)
            ELSE IF StartsWith(input, <<"/">>)
            THEN [URLParts(baseUrl) EXCEPT !.path = input]
            ELSE [URLParts(baseUrl) EXCEPT !.path =
                     SubSeq(@, 1, CHOOSE i \in 1..Len(@) :
                                      /\ @[i] = "/"
                                      /\ \A j \in (i + 1)..Len(@) : @[j] # "/")
                     \o input]
    IN IF target.host = <<>> THEN [ok |-> FALSE]
       ELSE [ok |-> TRUE,
             href |-> target.scheme \o <<"/", "/">> \o target.host \o target.path]

\* the positions where /https?:\/\/[^\""\s]+/ matches
URLMatches(line) ==
    {i \in 1..Len(line) :
        \E scheme \in {<<"h", "t", "t", "p", ":", "/", "/">>,
                       <<"h", "t", "t", "p", "s", ":", "/", "/">>} :
            /\ i + Len(scheme) <= Len(line)
            /\ SubSeq(line, i, i + Len(scheme) - 1) = scheme
            /\ line[i + Len(scheme)] \notin WhiteSpace \cup {"\""}}

\* a proxy URL that carries the path of the target only
ProxyURLOfPath(target, headers, lb) ==
    <<"/", "s", "?", "u", "=">>
    \o Base64Encode(Utf8(URLParts(target).path))
    \o <<"&", "h", "e", "a", "d", "e", "r", "s", "=">>
    \o encodeURIComponent(JSONtext(headers))
    \o lb

\* `${selectedUrl}?u=${encodedUrl}&headers=${encodeURIComponent(
\* JSON.stringify(headers))}&lb=${lbChoice}`; lb is the text from &lb on,
\* which the template of the segment endpoint (s.ts) does not have
ProxyURL(target, headers, lb) ==
    <<"/", "s", "?", "u", "=">>
    \o Base64Encode(Utf8(target))
    \o <<"&", "h", "e", "a", "d", "e", "r", "s", "=">>
    \o encodeURIComponent(JSONtext(headers))
    \o lb

\* a replacement that takes the rest of the line for the URL
ReplaceURLToEnd(line, headers, lb) ==
    IF URLMatches(line) = {} THEN line
    ELSE LET first == CHOOSE i \in URLMatches(line) : \A j \in URLMatches(line) : i <= j
         IN SubSeq(line, 1, first - 1) \o ProxyURL(From(line, first), headers, lb)

\* regex.exec(line)?.[0] and line.replace(keyUrl, proxyKeyUrl): the line with
\* its first URL replaced, or the line when it has none
ReplaceURL(line, headers, lb) ==
    IF URLMatches(line) = {} THEN line
    ELSE LET first == CHOOSE i \in URLMatches(line) : \A j \in URLMatches(line) : i <= j
             last == CHOOSE j \in first..Len(line) :
                         /\ \A k \in first..j : line[k] \notin WhiteSpace \cup {"\""}
                         /\ j = Len(line) \/ line[j + 1] \in WhiteSpace \cup {"\""}
         IN SubSeq(line, 1, first - 1)
            \o ProxyURL(SubSeq(line, first, last), headers, lb)
            \o From(line, last + 1)

\* one turn of the loop over the lines: the line pushed, or the error thrown
RewriteLine(line, url, headers, master, lb) ==
    IF StartsWith(line, <<"#">>)
    THEN IF \/ StartsWith(line, <<"#", "E", "X", "T", "-", "X", "-", "K", "E", "Y", ":">>)
            \/ master /\ StartsWith(line, <<"#", "E", "X", "T", "-", "X", "-", "M", "E", "D", "I", "A", ":">>)
         THEN [threw |-> FALSE, line |-> ReplaceURL(line, headers, lb)]
         ELSE [threw |-> FALSE, line |-> line]
    ELSE IF Trim(line) # <<>>
    THEN IF parseURL(line, url).ok
         THEN [threw |-> FALSE,
               line |-> ProxyURL(parseURL(line, url).href, headers, lb)]
         ELSE [threw |-> TRUE]
    ELSE [threw |-> FALSE, line |-> line]

\* the loop over the lines and what follows it: the joined lines, or the
\* error of the catch block when a turn threw
Rewrite(lines, url, headers, master, lb) ==
    LET newLines == [i \in 1..Len(lines) |->
                        RewriteLine(lines[i], url, headers, master, lb)]
    IN IF \E i \in 1..Len(lines) : newLines[i].threw
       THEN [status |-> 500, body |-> <<>>]
       ELSE [status |-> 200,
             body |-> Join([i \in 1..Len(lines) |-> newLines[i].line], <<"\n">>)]

\* sendError(event, createError({statusCode})) of a handler that has made
\* the given number of upstream fetches
Refused(statusCode, fetches) ==
    [status |-> statusCode, body |-> <<>>, fetches |-> fetches]

proxyM3U8FetchFirst(url, headersParam, fetched) ==
    IF url = absent THEN Refused(400, 0)
    ELSE IF headersParam # null /\ ~JSONparse(headersParam).ok
    THEN Refused(400, 1)
    ELSE IF ~fetched.ok THEN Refused(500, 1)
    ELSE Rewrite(Split(fetched.text, <<"\n">>), url,
                 IF headersParam = null THEN <<>> ELSE JSONparse(headersParam).value,
                 IndexOf(fetched.text,
                         <<"R", "E", "S", "O", "L", "U", "T", "I", "O", "N", "=">>) > 0,
                 <<"&", "l", "b", "=", "l", "o", "c", "a", "l">>)
         @@ [fetches |-> 1]

\* proxyM3U8 for the query parameters url and headers and the upstream's
\* answer to the fetch: the response, and the number of fetches made
proxyM3U8(url, headersParam, fetched) ==
    IF url = absent THEN Refused(400, 0)
    ELSE IF headersParam # null /\ ~JSONparse(headersParam).ok
    THEN Refused(400, 0)
    ELSE IF ~fetched.ok THEN Refused(500, 1)
    ELSE Rewrite(Split(fetched.text, <<"\n">>), url,
                 IF headersParam = null THEN <<>> ELSE JSONparse(headersParam).value,
                 IndexOf(fetched.text,
                         <<"R", "E", "S", "O", "L", "U", "T", "I", "O", "N", "=">>) > 0,
                 <<"&", "l", "b", "=", "l", "o", "c", "a", "l">>)
         @@ [fetches |-> 1]

\* the event handler of the playlist endpoint
m3u8Proxy(disabledRoute, url, headersParam, fetched) ==
    IF disabledRoute THEN Refused(404, 0)
    ELSE proxyM3U8(url, headersParam, fetched)

\* the URL of the playlist
M3U8_URL ==
    <<"h", "t", "t", "p", ":", "/", "/", "h", "/", "p", "/", "m", ".", "m",
      "3", "u", "8">>

\* the lines manifests are made of: blank lines, comments, the tag of a
\* variant, key and media tags with and without an absolute URL, and URI lines
\* that are relative, absolute and without host
Lines ==
    {<<>>,
     <<"#", "E", "X", "T", "-", "X", "-", "K", "E", "Y", ":", "U", "R", "I", "=", "\"", "h", "t", "t", "p", ":", "/", "/", "k", "/", "k", "\"", ",", "V", "=", "\"", "h", "t", "t", "p", ":", "/", "/", "k", "/", "k", "\"">>,
     <<"\r">>,
     <<"#", "E", "X", "T", "M", "3", "U">>,
     <<"#", "E", "X", "T", "-", "X", "-", "S", "T", "R", "E", "A", "M", "-",
       "I", "N", "F", ":", "R", "E", "S", "O", "L", "U", "T", "I", "O", "N",
       "=", "1", "x", "1">>,
     <<"#", "E", "X", "T", "-", "X", "-", "K", "E", "Y", ":", "M", "E", "T",
       "H", "O", "D", "=", "A", "E", "S", "-", "1", "2", "8", ",", "U", "R",
       "I", "=", "\"", "h", "t", "t", "p", ":", "/", "/", "k", "/", "k",
       "\"">>,
     <<"#", "E", "X", "T", "-", "X", "-", "K", "E", "Y", ":", "M", "E", "T",
       "H", "O", "D", "=", "N", "O", "N", "E">>,
     <<"#", "E", "X", "T", "-", "X", "-", "M", "E", "D", "I", "A", ":", "T",
       "Y", "P", "E", "=", "A", "U", "D", "I", "O", ",", "U", "R", "I", "=",
       "\"", "h", "t", "t", "p", "s", ":", "/", "/", "a", "/", "a", ".", "m",
       "3", "u", "8", "\"">>,
     <<"s", "e", "g", "1", ".", "t", "s">>,
     <<"h", "t", "t", "p", ":", "/", "/", "c", "/", "s", ".", "t", "s">>,
     <<"h", "t", "t", "p", ":", "/", "/">>}

MaxLines == 2

\* the manifests of at most MaxLines lines
Manifests ==
    {Join(lines, <<"\n">>) : lines \in UNION {[1..n -> Lines] : n \in 0..MaxLines}}

\* GET of the playlist endpoint
ProxyM3U8(url, headersParam, fetched) ==
    /\ Idle
    /\ playlist' = [endpoint |-> "m3u8-proxy.ts", url |-> url,
                    headers |-> headersParam, fetched |-> fetched,
                    response |-> m3u8Proxy(config.DISABLE_M3U8, url, headersParam,
                                           fetched)]
    /\ UNCHANGED <<rangeVars, hotVars, mp4Vars, warmVars, strategyVars>>

\* bytes.toString('utf-8')
Text(bytes) == [i \in 1..Len(bytes) |-> ASCII[bytes[i] - 31]]

\* Buffer.from(u, 'base64').toString('utf-8')
decodeParam(u) == Text(Base64Decode(u))

\* CacheAnalytics as constructed
CacheAnalytics ==
    [hits |-> 0, misses |-> 0, totalRequests |-> 0,
     totalUncompressedBytes |-> 0, totalCompressedBytes |-> 0]

recordHitUncounted(a, uncompressedBytes) ==
    [a EXCEPT !.hits = @ + 1,
              !.totalUncompressedBytes = @ + uncompressedBytes]

\* recordHit(uncompressedBytes)
recordHit(a, uncompressedBytes) ==
    [a EXCEPT !.hits = @ + 1,
              !.totalRequests = @ + 1,
              !.totalUncompressedBytes = @ + uncompressedBytes]

\* recordMiss(uncompressedBytes, compressedBytes)
recordMiss(a, uncompressedBytes, compressedBytes) ==
    [a EXCEPT !.misses = @ + 1,
              !.totalRequests = @ + 1,
              !.totalUncompressedBytes = @ + uncompressedBytes,
              !.totalCompressedBytes = @ + compressedBytes]

\* Math.floor(data.byteLength * 0.25)
estimatedCompressedSize(data) == (Len(data) * 25) \div 100

\* isCacheDisabled() of s.ts: DISABLE_TS_CACHE is false, Redis is enabled
isCacheDisabledTS(disabled, connected) == disabled \/ ~connected

\* what the segment handler did besides answering: the upstream fetches and
\* warm tier reads it made, the byte length it passed to recordHit if it
\* served an entry of the tier, and the segment it leaves to be cached
Handled(url, answer, reads, hit, write) ==
    [url |-> url, response |-> answer, reads |-> reads, hit |-> hit,
     write |-> write]

isM3U8ByType(fetched) ==
    fetched.contentType \in {"application/vnd.apple.mpegurl", "application/x-mpegurl"}

\* isM3U8 of the segment handler, for the upstream's answer
isM3U8(fetched) ==
    \/ fetched.contentType \in {"application/vnd.apple.mpegurl",
                                "application/x-mpegurl"}
    \/ StartsWith(fetched.text, <<"#", "E", "X", "T", "M", "3", "U">>)

\* the segment handler from its warm tier lookup on, for a URL
ServeSegment(connected, disabled, rejects, store, t, url, headers, fetched) ==
    LET cached == IF isCacheDisabledTS(disabled, connected) THEN Miss
                  ELSE RedisCache_get(connected, rejects, store, t, url)
        reads == IF isCacheDisabledTS(disabled, connected) THEN 0 ELSE 1
    IN IF cached.entry # null
       THEN Handled(url,
                    [status |-> 200, body |-> cached.entry.data, fetches |-> 0,
                     contentType |->
                         IF Member(cached.entry.headers, "content-type").defined
                         THEN Member(cached.entry.headers, "content-type").value
                         ELSE "video/mp2t"],
                    reads, <<Len(cached.entry.data)>>, null)
       ELSE IF ~fetched.ok THEN Handled(url, Refused(500, 1), reads, <<>>, null)
       ELSE IF isM3U8(fetched)
       THEN Handled(url,
                    Rewrite(Split(fetched.text, <<"\n">>), url, headers, FALSE, <<>>)
                    @@ [fetches |-> 1],
                    reads, <<>>, null)
       ELSE Handled(url,
                    [status |-> 200, body |-> fetched.data, fetches |-> 1,
                     contentType |-> fetched.contentType],
                    reads, <<>>,
                    IF isCacheDisabledTS(disabled, connected) THEN null
                    ELSE [url |-> url, data |-> fetched.data,
                          contentType |-> fetched.contentType])

\* the segment endpoint (s.ts) for the query parameters u, lb and headers, the
\* upstream's answer to the fetch and the warm tier as it stands;
\* decodedParam is decodeParam(u).  A playlist URL asked for with lb=local is
\* answered by the playlist endpoint; a manifest fetched otherwise is
\* rewritten here.
proxyTS(disabledRoute, connected, disabled, rejects, store, t, u, decodedParam, lb, headersParam, fetched) ==
    IF disabledRoute THEN Handled(decodedParam, Refused(404, 0), 0, <<>>, null)
    ELSE IF u = absent THEN Handled(decodedParam, Refused(400, 0), 0, <<>>, null)
    ELSE IF /\ lb = <<"l", "o", "c", "a", "l">>
            /\ Len(decodedParam) >= 5
            /\ From(decodedParam, Len(decodedParam) - 4) = <<".", "m", "3", "u", "8">>
    THEN Handled(decodedParam,
                 m3u8Proxy(disabledRoute, decodedParam,
                           IF headersParam = null THEN JSONstringify(<<>>)
                           ELSE headersParam,
                           fetched),
                 0, <<>>, null)
    ELSE IF headersParam # null /\ ~JSONparse(headersParam).ok
    THEN Handled(decodedParam, Refused(400, 0), 0, <<>>, null)
    ELSE IF ~(\/ StartsWith(decodedParam, <<"h", "t", "t", "p", ":", "/", "/">>)
              \/ StartsWith(decodedParam, <<"h", "t", "t", "p", "s", ":", "/", "/">>))
    THEN Handled(decodedParam,
                 [status |-> 200, body |-> Base64Decode(decodedParam),
                  fetches |-> 0, contentType |-> "video/mp2t"],
                 0, <<>>, null)
    ELSE ServeSegment(connected, disabled, rejects, store, t, decodedParam,
                      IF headersParam = null THEN <<>>
                      ELSE JSONparse(headersParam).value,
                      fetched)

\* GET of the segment endpoint; rejects tells whether the command of the warm
\* tier lookup fails.  The write of a fetched segment is left to the steps
\* that follow the response.
ProxyTS(u, lb, headersParam, fetched, rejects) ==
    /\ Idle
    /\ \E decodedParam \in {IF u = absent THEN absent ELSE decodeParam(u)} :
       \E done \in {proxyTS(config.DISABLE_M3U8, isConnected,
                            config.DISABLE_CACHE, rejects, redis, now, u,
                            decodedParam, lb, headersParam, fetched)} :
           /\ playlist' = [endpoint |-> "s.ts", u |-> u, lb |-> lb,
                           url |-> done.url,
                           headers |-> headersParam, fetched |-> fetched,
                           response |-> done.response, reads |-> done.reads,
                           rejects |-> rejects, connected |-> isConnected,
                           found |-> ClientGet(redis, now, getCacheKey(done.url)),
                           hit |-> done.hit, write |-> done.write]
           /\ analytics' = IF done.hit = <<>> THEN analytics
                           ELSE recordHit(analytics, done.hit[1])
           /\ tsWrites' = IF done.write = null THEN tsWrites
                          ELSE Append(tsWrites, done.write @@ [stage |-> "get"])
    /\ UNCHANGED <<redis, isConnected, warm, config>>
    /\ UNCHANGED <<rangeVars, hotVars, mp4Vars, strategyVars>>

PresenceUnchecked(i, rejects) ==
    /\ i \in 1..Len(tsWrites)
    /\ tsWrites[i].stage = "get"
    /\ tsWrites' = [tsWrites EXCEPT ![i] =
                        [url |-> @.url, data |-> @.data,
                         contentType |-> @.contentType,
                         stage |-> "set", timestamp |-> now,
                         checked |-> [rejects |-> rejects,
                                      found |-> ClientGet(redis, now,
                                                          getCacheKey(@.url))]]]
    /\ UNCHANGED <<redis, isConnected, warm, analytics, config>>
    /\ UNCHANGED <<rangeVars, hotVars, mp4Vars, playlistVars, strategyVars>>

\* redisCache.get(url) of a write under way is answered: a segment found is
\* left alone; otherwise redisCache.set is called, which returns at once when
\* the tier is not connected and else sends its command.  The write keeps
\* what the server held for the key and whether the command failed.
PresenceChecked(i, rejects) ==
    /\ i \in 1..Len(tsWrites)
    /\ tsWrites[i].stage = "get"
    /\ \E existing \in {RedisCache_get(TRUE, rejects, redis, now, tsWrites[i].url)} :
           IF existing.entry # null
           THEN /\ tsWrites' = Remove(tsWrites, i)
                /\ UNCHANGED analytics
           ELSE IF ~isConnected
           THEN /\ tsWrites' = Remove(tsWrites, i)
                /\ analytics' = recordMiss(analytics, Len(tsWrites[i].data),
                                           estimatedCompressedSize(tsWrites[i].data))
           ELSE /\ tsWrites' = [tsWrites EXCEPT ![i] =
                                    [url |-> @.url, data |-> @.data,
                                     contentType |-> @.contentType,
                                     stage |-> "set", timestamp |-> now,
                                     checked |->
                                         [rejects |-> rejects,
                                          found |-> ClientGet(redis, now,
                                                              getCacheKey(@.url))]]]
                /\ UNCHANGED analytics
    /\ UNCHANGED <<redis, isConnected, warm, config>>
    /\ UNCHANGED <<rangeVars, hotVars, mp4Vars, playlistVars, strategyVars>>

SegmentEntryUntyped(write) ==
    [data |-> write.data, headers |-> <<>>, timestamp |-> write.timestamp]

\* the entry redisCache.set was called with
SegmentEntry(write) ==
    [data |-> write.data,
     headers |-> <<[name |-> "content-type", value |-> write.contentType]>>,
     timestamp |-> write.timestamp]

\* the setEx of a write under way is answered: the key holds the segment
\* unless the command failed, and the miss is counted
SegmentStored(i, rejects) ==
    /\ i \in 1..Len(tsWrites)
    /\ tsWrites[i].stage = "set"
    /\ redis' = RedisCache_set(TRUE, rejects, redis, now, tsWrites[i].url,
                               SegmentEntry(tsWrites[i]))
    /\ tsWrites' = Remove(tsWrites, i)
    /\ analytics' = recordMiss(analytics, Len(tsWrites[i].data),
                               estimatedCompressedSize(tsWrites[i].data))
    /\ UNCHANGED <<isConnected, warm, config>>
    /\ UNCHANGED <<rangeVars, hotVars, mp4Vars, playlistVars, strategyVars>>

-----------------------------------------------------------------------------
(* MP4 chunk manifests (part_000: MP4ChunkManager; part_003: getMP4Playlist) *)

\* part_000:21
DEFAULT_CHUNK_SIZE == 262144

\* part_003:239, scaled: 4.5MB
SEGMENT_SIZE == 2

\* Math.ceil(a / b) for b > 0
Ceil(a, b) == 0 - ((0 - a) \div b)

\* `/mp4-proxy?url=${encodeURIComponent(url)}&chunk=${chunkIndex}&headers=${
\* encodeURIComponent(JSON.stringify(headers))}`, and the same with &segment=
getChunkUrl(url, chunkIndex, headers, param) ==
    <<"/", "m", "p", "4", "-", "p", "r", "o", "x", "y", "?", "u", "r", "l", "=">> \o encodeURIComponent(url)
    \o <<"&">> \o param \o <<"=">> \o ToStr(chunkIndex)
    \o <<"&", "h", "e", "a", "d", "e", "r", "s", "=">> \o encodeURIComponent(JSONtext(headers))

\* a loop that gives every chunk the full chunk size
ChunkInfosUnclamped(url, totalSize, headers, chunkSize, param) ==
    [k \in 1..Max(0, Ceil(totalSize, chunkSize)) |->
        [index |-> k - 1,
         start |-> (k - 1) * chunkSize,
         end |-> (k - 1) * chunkSize + chunkSize - 1,
         size |-> chunkSize,
         url |-> getChunkUrl(url, k - 1, headers, param)]]

\* the loop over the chunks: for (let i = 0; i < totalChunks; i++)
ChunkInfos(url, totalSize, headers, chunkSize, param) ==
    [k \in 1..Max(0, Ceil(totalSize, chunkSize)) |->
        [index |-> k - 1,
         start |-> (k - 1) * chunkSize,
         end |-> Min((k - 1) * chunkSize + chunkSize - 1, totalSize - 1),
         size |-> Min((k - 1) * chunkSize + chunkSize - 1, totalSize - 1)
                      - (k - 1) * chunkSize + 1,
         url |-> getChunkUrl(url, k - 1, headers, param)]]

\* MP4ChunkManager.generateManifest of a manager made with the default chunk
\* size; customChunkSize is 0 when the argument is not given (0 || x is x)
generateManifest(url, totalSize, headers, customChunkSize) ==
    LET chunkSize == IF customChunkSize # 0 THEN customChunkSize
                     ELSE DEFAULT_CHUNK_SIZE
    IN [url |-> url,
        totalSize |-> totalSize,
        chunkSize |-> chunkSize,
        totalChunks |-> Ceil(totalSize, chunkSize),
        chunks |-> ChunkInfos(url, totalSize, headers, chunkSize, <<"c", "h", "u", "n", "k">>),
        headers |-> headers]

\* the manifest object of getMP4Playlist for the content length of the HEAD
\* response
MP4Playlist(url, contentLength, headers) ==
    [url |-> url,
     totalSize |-> contentLength,
     segmentSize |-> SEGMENT_SIZE,
     totalSegments |-> Ceil(contentLength, SEGMENT_SIZE),
     segments |-> ChunkInfos(url, contentLength, headers, SEGMENT_SIZE, <<"s", "e", "g", "m", "e", "n", "t">>),
     headers |-> headers]

\* the largest chunk size asked for
MaxChunkSize == 4

\* the sizes and chunk sizes manifests are made for: the small ones, and the
\* megabyte of 256KB chunks; and the content lengths playlists are made for
ManifestInputs ==
    {[call |-> "generateManifest", totalSize |-> t, customChunkSize |-> c] :
        t \in 0..MaxLen, c \in 0..MaxChunkSize}
    \cup {[call |-> "generateManifest", totalSize |-> 1000000,
           customChunkSize |-> c] : c \in {0, 262144}}
    \cup {[call |-> "getMP4Playlist", totalSize |-> t, customChunkSize |-> 0] :
             t \in 1..MaxLen}

\* a call generateManifest(MP4_A, totalSize, {}, customChunkSize), or the making
\* of the manifest object in getMP4Playlist, about to happen
ManifestInit ==
    \E input \in ManifestInputs :
        strategy = [called |-> FALSE, call |-> input.call,
                    totalSize |-> input.totalSize,
                    customChunkSize |-> input.customChunkSize]

GenerateManifest ==
    /\ strategy # null
    /\ ~strategy.called
    /\ strategy.call = "generateManifest"
    /\ strategy' = [strategy EXCEPT !.called = TRUE] @@
                   [manifest |-> generateManifest(MP4_A, strategy.totalSize, <<>>,
                                                  strategy.customChunkSize)]
    /\ UNCHANGED <<rangeVars, hotVars, mp4Vars, warmVars, playlistVars>>

MakeMP4Playlist ==
    /\ strategy # null
    /\ ~strategy.called
    /\ strategy.call = "getMP4Playlist"
    /\ strategy' = [strategy EXCEPT !.called = TRUE] @@
                   [playlist |-> MP4Playlist(MP4_A, strategy.totalSize, <<>>)]
    /\ UNCHANGED <<rangeVars, hotVars, mp4Vars, warmVars, playlistVars>>

-----------------------------------------------------------------------------
(* MP4 strategy handler (part_003:230-892): client profiles, the delivery   *)
(* strategies, and the handler that selects one                             *)

\* part_003:240
MAX_SEGMENTS_PER_REQUEST == 3

\* the bytes with every capital letter replaced by its small letter
LowerCaseBytes(bytes) ==
    [i \in 1..Len(bytes) |-> IF bytes[i] \in 65..90 THEN bytes[i] + 32 ELSE bytes[i]]

\* userAgent.toLowerCase()
toLowerCase(text) == Text(LowerCaseBytes(Utf8(text)))

\* text.includes(pattern)
Includes(text, pattern) == IndexOf(text, pattern) > 0

\* detectBrowser(userAgent), from the lower-cased user agent on
detectLowerCase(ua) ==
    IF Includes(ua, <<"f", "i", "r", "e", "f", "o", "x">>) THEN "firefox"
    ELSE IF Includes(ua, <<"b", "r", "a", "v", "e">>) THEN "brave"
    ELSE IF Includes(ua, <<"c", "h", "r", "o", "m", "e">>) /\ ~Includes(ua, <<"e", "d", "g">>) THEN "chrome"
    ELSE IF Includes(ua, <<"s", "a", "f", "a", "r", "i">>) /\ ~Includes(ua, <<"c", "h", "r", "o", "m", "e">>) THEN "safari"
    ELSE "other"

detectBrowser(userAgent) == detectLowerCase(toLowerCase(userAgent))

\* part_003:243-284; the chunk sizes are scaled: 5MB, 4MB
BROWSER_CAPABILITIES ==
    [browser \in {"firefox", "safari", "chrome", "brave", "other"} |->
        IF browser \in {"firefox", "safari"}
        THEN [supportsChunked |-> FALSE, supportsProgressive |-> FALSE,
              chunkSize |-> 0, needsFullHeaders |-> TRUE,
              useRangeRequests |-> TRUE, preferFullFile |-> TRUE]
        ELSE [supportsChunked |-> TRUE, supportsProgressive |-> TRUE,
              chunkSize |-> IF browser = "brave" THEN 2 ELSE 3,
              needsFullHeaders |-> FALSE,
              useRangeRequests |-> TRUE, preferFullFile |-> FALSE]]

\* a query flag is set: flag === 'true' || flag === ''
FlagSet(query, name) ==
    /\ Member(query, name).defined
    /\ Member(query, name).value \in {<<"t", "r", "u", "e">>, <<>>}

\* a selection that batches whenever the profile supports it, Range or not
DefaultStrategyBatchFirst(capabilities, rangeHeader) ==
    IF capabilities.preferFullFile
    THEN [strategy |-> "FullFile", serve |-> "proxyMP4"]
    ELSE IF capabilities.supportsProgressive
    THEN [strategy |-> "ProgressiveBatch", serve |-> "getMP4Progressive"]
    ELSE [strategy |-> "RangePassthrough", serve |-> "proxyMP4"]

\* the default behaviour, for a GET that no flag has claimed
DefaultStrategy(capabilities, rangeHeader) ==
    IF capabilities.preferFullFile
    THEN [strategy |-> "FullFile", serve |-> "proxyMP4"]
    ELSE IF rangeHeader # absent /\ capabilities.useRangeRequests
    THEN [strategy |-> "RangePassthrough", serve |-> "proxyMP4"]
    ELSE IF capabilities.supportsProgressive /\ rangeHeader = absent
    THEN [strategy |-> "ProgressiveBatch", serve |-> "getMP4Progressive"]
    ELSE [strategy |-> "FullFile", serve |-> "proxyMP4"]

\* the branch of the handler a GET takes after the method test: the strategy,
\* and the function that serves it
SelectStrategy(query, capabilities, rangeHeader) ==
    IF FlagSet(query, "chunked") /\ capabilities.supportsChunked
    THEN [strategy |-> "FixedChunk", serve |-> "handleChunkedRequest"]
    ELSE IF FlagSet(query, "playlist")
    THEN [strategy |-> "Manifest", serve |-> "getMP4Playlist"]
    ELSE IF Member(query, "segment").defined
    THEN [strategy |-> "Segment", serve |-> "getMP4Segment"]
    ELSE IF FlagSet(query, "progressive")
    THEN [strategy |-> "ProgressiveBatch", serve |-> "getMP4Progressive"]
    ELSE DefaultStrategy(capabilities, rangeHeader)

\* parseInt(text, 10) of a query parameter: the number that the optional sign
\* and the digits after the leading white space spell, or NaN
parseInt10(text) ==
    LET input == IF Trim(text) = <<>> THEN <<>>
                 ELSE From(text, IndexOf(text, Trim(text)))
        negative == input # <<>> /\ Head(input) = "-"
        unsigned == IF input # <<>> /\ Head(input) \in {"-", "+"} THEN Tail(input)
                    ELSE input
    IN IF DigitRun(unsigned) = 0 THEN [nan |-> TRUE]
       ELSE [nan |-> FALSE,
             value |-> IF negative
                       THEN 0 - parseInt(SubSeq(unsigned, 1, DigitRun(unsigned)))
                       ELSE parseInt(SubSeq(unsigned, 1, DigitRun(unsigned)))]

\* mp4ChunkManager.parseChunkIndex(event): the chunk parameter as a number;
\* nan stands for null
parseChunkIndex(query) ==
    IF ~Member(query, "chunk").defined \/ Member(query, "chunk").value = <<>>
    THEN [nan |-> TRUE]
    ELSE parseInt10(Member(query, "chunk").value)

\* a response of the strategy handler: the status, the body, the Content-Length
\* and Content-Range headers (absent when not set) and the X- headers set;
\* getBrowserSpecificHeaders puts Accept-Ranges: bytes in every response and
\* Content-Length when the length is not 0
StrategyResponse(status, body, contentLength, contentRange, marks) ==
    [status |-> status, body |-> body,
     contentLength |-> IF contentLength = 0 THEN absent ELSE ToStr(contentLength),
     contentRange |-> contentRange, acceptRanges |-> "bytes", marks |-> marks,
     from |-> "upstream"]

\* an error thrown in a strategy: the catch of the handler answers 500
Thrown == ErrorResponse(500) @@ [marks |-> <<>>]

\* the Content-Length of an upstream response: parseInt(... || '0', 10)
LengthOf(resp) ==
    IF resp.contentLength = absent THEN 0 ELSE parseInt(resp.contentLength)

\* getMP4Playlist
getMP4Playlist(u, url) ==
    IF ~Ok(UpstreamHead(u, url).status) \/ LengthOf(UpstreamHead(u, url)) = 0
    THEN Thrown
    ELSE StrategyResponse(200, MP4Playlist(url, LengthOf(UpstreamHead(u, url)), <<>>),
                          0, absent, <<>>)

\* the Range header of the fetch of a chunk: `bytes=${start}-${end}`
ChunkRange(start, end) == BYTES_EQ \o ToStr(start) \o <<"-">> \o ToStr(end)

\* the Range header of a fetch with headers: {'Range': range, ...headers}: a
\* member Range of the caller's map replaces the range computed, and a member
\* of the same header name in another case is a second member of the object,
\* which fetch joins to the first
RangeSent(range, headers) ==
    IF Member(headers, "Range").defined THEN Member(headers, "Range").value
    ELSE IF Member(headers, "range").defined
    THEN range \o <<",", " ">> \o Member(headers, "range").value
    ELSE range

\* getMP4Segment
getMP4Segment(u, url, segmentIndex, headers) ==
    LET totalSize == LengthOf(UpstreamHead(u, url))
        start == segmentIndex * SEGMENT_SIZE
        end == Min(start + SEGMENT_SIZE - 1, totalSize - 1)
        fetched == UpstreamGet(u, url, RangeSent(ChunkRange(start, end), headers))
    IN IF ~Ok(UpstreamHead(u, url).status) \/ totalSize = 0 THEN Thrown
       ELSE IF ~Ok(fetched.status) /\ fetched.status # 206 THEN Thrown
       ELSE StrategyResponse(206, fetched.body, Len(fetched.body),
                             ContentRange(start, end, totalSize),
                             <<[name |-> "X-Segment-Index",
                                value |-> ToStr(segmentIndex)],
                               [name |-> "X-Segment-Start", value |-> ToStr(start)],
                               [name |-> "X-Segment-End", value |-> ToStr(end)]>>)
            @@ [ranges |-> <<RangeSent(ChunkRange(start, end), headers)>>]

\* the answer to the i-th fetch of a batch: the origin's, unless the fetch
\* meets a failure of its own: an error status, or no answer at all (fetch
\* rejects)
FetchChunk(u, url, range, fault) ==
    IF fault = "network" THEN [rejected |-> TRUE]
    ELSE IF fault = "status"
    THEN [rejected |-> FALSE, status |-> 503, body |-> <<>>]
    ELSE [rejected |-> FALSE, status |-> UpstreamGet(u, url, range).status,
          body |-> UpstreamGet(u, url, range).body]

\* the loop of getMP4Progressive from turn i on: the buffers pushed, the Range
\* headers sent, and whether a fetch threw
RECURSIVE FetchSegments(_, _, _, _, _, _, _, _, _)
FetchSegments(u, url, totalSize, startSegment, i, segmentsToServe, faults, headers, done) ==
    IF i >= segmentsToServe THEN done
    ELSE LET start == (startSegment + i) * SEGMENT_SIZE
             end == Min(start + SEGMENT_SIZE - 1, totalSize - 1)
             range == RangeSent(ChunkRange(start, end), headers)
             fetched == FetchChunk(u, url, range, faults[i + 1])
             asked == [done EXCEPT !.ranges = Append(@, range)]
         IN IF fetched.rejected THEN [asked EXCEPT !.threw = TRUE]
            ELSE IF ~Ok(fetched.status) /\ fetched.status # 206 THEN asked
            ELSE FetchSegments(u, url, totalSize, startSegment, i + 1,
                               segmentsToServe, faults, headers,
                               [asked EXCEPT !.buffers = Append(@, fetched.body)])

\* the bytes of the buffers one after the other
RECURSIVE Concat(_)
Concat(buffers) ==
    IF buffers = <<>> THEN <<>> ELSE Head(buffers) \o Concat(Tail(buffers))

\* getMP4Progressive from the loop's outcome on
ProgressiveResponse(startSegment, totalSegments, done) ==
    IF done.threw THEN Thrown @@ [ranges |-> done.ranges]
    ELSE StrategyResponse(200, Concat(done.buffers), Len(Concat(done.buffers)),
                          absent,
                          <<[name |-> "X-Start-Segment",
                             value |-> IF startSegment.nan THEN <<"N", "a", "N">>
                                       ELSE ToStr(startSegment.value)],
                            [name |-> "X-Segments-Served",
                             value |-> ToStr(Len(done.buffers))],
                            [name |-> "X-Total-Segments",
                             value |-> ToStr(totalSegments)]>>)
         @@ [ranges |-> done.ranges, buffers |-> done.buffers]

\* getMP4Progressive; with a start that is not a number segmentsToServe is NaN
\* and the loop has no turn
getMP4Progressive(u, url, startSegment, faults, headers) ==
    LET totalSize == LengthOf(UpstreamHead(u, url))
        totalSegments == Ceil(totalSize, SEGMENT_SIZE)
        nothing == [buffers |-> <<>>, ranges |-> <<>>, threw |-> FALSE]
    IN IF ~Ok(UpstreamHead(u, url).status) \/ totalSize = 0
       THEN Thrown @@ [ranges |-> <<>>]
       ELSE IF startSegment.nan
       THEN ProgressiveResponse(startSegment, totalSegments, nothing)
       ELSE ProgressiveResponse(
                startSegment, totalSegments,
                FetchSegments(u, url, totalSize, startSegment.value, 0,
                              Min(MAX_SEGMENTS_PER_REQUEST,
                                  totalSegments - startSegment.value),
                              faults, headers, nothing))

\* part_003:632, scaled: the first 2MB, which hold the headers of the file
HEADER_BYTES == 1

\* rangeHeader.match(/bytes=(\d+)-(\d*)/) of a header that starts with bytes=:
\* null, or the two capture groups
MatchRangePrefix(rangeHeader) ==
    LET rest == From(rangeHeader, Len(BYTES_EQ) + 1)
        n == DigitRun(rest)
        after == From(rest, n + 1)
    IN IF n > 0 /\ after # <<>> /\ Head(after) = "-"
       THEN [startStr |-> SubSeq(rest, 1, n),
             endStr |-> SubSeq(Tail(after), 1, DigitRun(Tail(after)))]
       ELSE null

\* the byte window of handleChunkedRequest: of the chunk asked for, or of the
\* client's Range header, or the first bytes of the file
ChunkWindow(chunkIndex, chunkSize, rangeHeader, totalSize) ==
    IF ~chunkIndex.nan
    THEN [start |-> chunkIndex.value * chunkSize,
          end |-> Min(chunkIndex.value * chunkSize + chunkSize - 1, totalSize - 1)]
    ELSE IF StartsWith(rangeHeader, BYTES_EQ) /\ MatchRangePrefix(rangeHeader) # null
    THEN [start |-> parseInt(MatchRangePrefix(rangeHeader).startStr),
          end |-> IF MatchRangePrefix(rangeHeader).endStr # <<>>
                  THEN parseInt(MatchRangePrefix(rangeHeader).endStr)
                  ELSE Min(parseInt(MatchRangePrefix(rangeHeader).startStr)
                               + chunkSize - 1,
                           totalSize - 1)]
    ELSE [start |-> 0, end |-> Min(HEADER_BYTES - 1, totalSize - 1)]

\* handleChunkedRequest from the upstream's answer to the range fetch on
ServeFetched(fetched, range, window, totalSize, chunkIndex) ==
    IF ~Ok(fetched.status) /\ fetched.status # 206
    THEN Thrown @@ [ranges |-> <<range>>]
    ELSE StrategyResponse(
             206, fetched.body, Len(fetched.body),
             ContentRange(window.start, window.end, totalSize),
             <<[name |-> "X-Chunked-Response", value |-> <<"t", "r", "u", "e">>]>>
             \o IF chunkIndex.nan THEN <<>>
                ELSE <<[name |-> "X-Chunk-Index", value |-> ToStr(chunkIndex.value)]>>)
         @@ [ranges |-> <<range>>]

\* handleChunkedRequest from the byte window on
ServeWindow(u, url, window, totalSize, chunkIndex, headers) ==
    ServeFetched(UpstreamGet(u, url,
                             RangeSent(ChunkRange(window.start, window.end), headers)),
                 RangeSent(ChunkRange(window.start, window.end), headers),
                 window, totalSize, chunkIndex)

\* onResponse of proxyMP4: the headers set from the upstream response
onResponse(fetched) ==
    StrategyResponse(fetched.status, fetched.body, LengthOf(fetched),
                     IF fetched.status = 206 THEN fetched.contentRange ELSE absent,
                     <<>>)

\* specificProxyRequest(event, url, {fetchOptions, onResponse}): the request is
\* sent upstream and the upstream's status and body are relayed; the response
\* to a HEAD request has no body
specificProxyRequest(u, method, url, range) ==
    [onResponse(UpstreamGet(u, url, range)) EXCEPT
        !.body = IF method = "HEAD" THEN <<>> ELSE @]

\* the client's Range header when proxyMP4 forwards it: fetchHeaders['Range']
ForwardedRange(browser, rangeHeader) ==
    IF BROWSER_CAPABILITIES[browser].preferFullFile
    THEN IF rangeHeader # absent /\ browser = "firefox" THEN rangeHeader ELSE absent
    ELSE IF rangeHeader # absent /\ BROWSER_CAPABILITIES[browser].useRangeRequests
    THEN rangeHeader
    ELSE absent

\* the Range header of proxyMP4's fetch: fetchHeaders is {...headers} with
\* Range assigned when the client's is forwarded
ProxiedRange(forwarded, headers) ==
    IF forwarded # absent
    THEN IF Member(headers, "range").defined
         THEN forwarded \o <<",", " ">> \o Member(headers, "range").value
         ELSE forwarded
    ELSE IF Member(headers, "Range").defined
    THEN IF Member(headers, "range").defined
         THEN Member(headers, "Range").value \o <<",", " ">>
              \o Member(headers, "range").value
         ELSE Member(headers, "Range").value
    ELSE IF Member(headers, "range").defined THEN Member(headers, "range").value
    ELSE absent

\* proxyMP4 of the strategy handler
proxyMP4Profiled(u, method, browser, url, rangeHeader, headers) ==
    specificProxyRequest(u, method, url,
                         ProxiedRange(ForwardedRange(browser, rangeHeader), headers))

\* handleChunkedRequest
handleChunkedRequest(u, method, browser, url, query, rangeHeader, headers) ==
    IF ~BROWSER_CAPABILITIES[browser].supportsChunked
    THEN proxyMP4Profiled(u, method, browser, url, rangeHeader, headers)
    ELSE IF ~Ok(UpstreamHead(u, url).status) \/ LengthOf(UpstreamHead(u, url)) = 0
    THEN Thrown
    ELSE ServeWindow(u, url,
                     ChunkWindow(parseChunkIndex(query),
                                 BROWSER_CAPABILITIES[browser].chunkSize,
                                 rangeHeader, LengthOf(UpstreamHead(u, url))),
                     LengthOf(UpstreamHead(u, url)), parseChunkIndex(query), headers)

\* the strategy handler for a request: the strategy selected, the function
\* that serves it, and the response
mp4Strategy(disabledRoute, u, method, browser, query, rangeHeader, url, headersParam, faults) ==
    LET selected == SelectStrategy(query, BROWSER_CAPABILITIES[browser], rangeHeader)
        headers == IF headersParam = null THEN <<>> ELSE JSONparse(headersParam).value
        start == IF Member(query, "start").defined /\ Member(query, "start").value # <<>>
                 THEN parseInt10(Member(query, "start").value)
                 ELSE parseInt10(<<"0">>)
        sendError(statusCode, branch) ==
            [strategy |-> branch, serve |-> "sendError",
             response |-> ErrorResponse(statusCode)
                          @@ [marks |-> <<>>, fetches |-> 0]]
        refused(branch) == sendError(400, branch)
    IN IF disabledRoute THEN sendError(404, "none")
       ELSE IF url = absent THEN refused("none")
       ELSE IF headersParam # null /\ ~JSONparse(headersParam).ok THEN refused("none")
       ELSE IF method = "HEAD"
       THEN [strategy |-> "Head", serve |-> "proxyMP4",
             response |-> proxyMP4Profiled(u, method, browser, url, rangeHeader,
                                           headers)]
       ELSE IF selected.serve = "handleChunkedRequest"
       THEN selected @@ [response |-> handleChunkedRequest(u, method, browser, url,
                                                           query, rangeHeader,
                                                           headers)]
       ELSE IF selected.serve = "getMP4Playlist"
       THEN selected @@ [response |-> getMP4Playlist(u, url)]
       ELSE IF selected.serve = "getMP4Segment"
       THEN IF parseInt10(Member(query, "segment").value).nan THEN refused("Segment")
            ELSE selected
                 @@ [response |->
                        getMP4Segment(u, url,
                                      parseInt10(Member(query, "segment").value).value,
                                      headers)]
       ELSE IF selected.serve = "getMP4Progressive"
       THEN selected @@ [response |-> getMP4Progressive(u, url, start, faults,
                                                        headers)]
       ELSE selected @@ [response |-> proxyMP4Profiled(u, method, browser, url,
                                                       rangeHeader, headers)]

\* a request of the MP4 route, handled to its response
MP4Strategy(method, userAgent, query, rangeHeader, url, headersParam, faults) ==
    /\ Idle
    /\ \E browser \in {detectBrowser(userAgent)} :
       \E done \in {mp4Strategy(config.DISABLE_MP4, upstream, method, browser, query,
                                rangeHeader, url, headersParam, faults)} :
           strategy' = [method |-> method, userAgent |-> userAgent,
                        browser |-> browser, query |-> query,
                        rangeHeader |-> rangeHeader, url |-> url,
                        headers |-> headersParam, faults |-> faults,
                        selected |-> done.strategy, serve |-> done.serve,
                        response |-> done.response]
    /\ UNCHANGED <<rangeVars, hotVars, mp4Vars, warmVars, playlistVars>>

\* "Firefox/115.0"
UA_FIREFOX ==
    <<"F", "i", "r", "e", "f", "o", "x", "/", "1", "1", "5", ".", "0">>

\* "Version/17.0 Safari/605.1"
UA_SAFARI ==
    <<"V", "e", "r", "s", "i", "o", "n", "/", "1", "7", ".", "0", " ", "S",
      "a", "f", "a", "r", "i", "/", "6", "0", "5", ".", "1">>

\* "Chrome/119.0 Safari/537.36"
UA_CHROME ==
    <<"C", "h", "r", "o", "m", "e", "/", "1", "1", "9", ".", "0", " ", "S",
      "a", "f", "a", "r", "i", "/", "5", "3", "7", ".", "3", "6">>

\* "Chrome/119.0 Safari/537.36 Edg/119.0"
UA_EDGE ==
    <<"C", "h", "r", "o", "m", "e", "/", "1", "1", "9", ".", "0", " ", "S",
      "a", "f", "a", "r", "i", "/", "5", "3", "7", ".", "3", "6", " ", "E",
      "d", "g", "/", "1", "1", "9", ".", "0">>

\* "Chrome/119.0 Safari/537.36 Brave"
UA_BRAVE ==
    <<"C", "h", "r", "o", "m", "e", "/", "1", "1", "9", ".", "0", " ", "S",
      "a", "f", "a", "r", "i", "/", "5", "3", "7", ".", "3", "6", " ", "B",
      "r", "a", "v", "e">>

\* "curl/8.4"
UA_CURL ==
    <<"c", "u", "r", "l", "/", "8", ".", "4">>

\* user agents of the five client classes: Firefox, Safari, Chrome, Edge (taken
\* for other), Brave, a download tool, and no User-Agent header
UserAgents ==
    {UA_FIREFOX, UA_SAFARI, UA_CHROME, UA_EDGE, UA_BRAVE, UA_CURL, absent}

\* a query of the flags given: <<"name", value>> pairs
RECURSIVE Query(_)
Query(pairs) ==
    IF pairs = <<>> THEN <<>>
    ELSE <<[name |-> Head(pairs)[1], value |-> Head(pairs)[2]]>> \o Query(Tail(pairs))

\* the queries: every combination of the five flags set, and flags with other
\* values
FlagQueries ==
    {Query((IF c THEN <<<<"chunked", <<"t", "r", "u", "e">>>>>> ELSE <<>>)
           \o (IF k THEN <<<<"chunk", <<"1">>>>>> ELSE <<>>)
           \o (IF p THEN <<<<"playlist", <<"t", "r", "u", "e">>>>>> ELSE <<>>)
           \o (IF g THEN <<<<"segment", <<"1">>>>>> ELSE <<>>)
           \o (IF r THEN <<<<"progressive", <<"t", "r", "u", "e">>>>>> ELSE <<>>)) :
        c \in BOOLEAN, k \in BOOLEAN, p \in BOOLEAN, g \in BOOLEAN, r \in BOOLEAN}
    \cup {Query(<<<<"chunked", <<>>>>, <<"chunk", <<"0">>>>>>),
          Query(<<<<"chunked", <<"f", "a", "l", "s", "e">>>>, <<"chunk", <<"1">>>>>>),
          Query(<<<<"chunk", <<"x">>>>>>),
          Query(<<<<"playlist", <<>>>>>>),
          Query(<<<<"playlist", <<"f", "a", "l", "s", "e">>>>>>),
          Query(<<<<"segment", <<"x">>>>>>),
          Query(<<<<"segment", <<"9">>>>>>),
          Query(<<<<"progressive", <<>>>>>>)}

\* the failures the fetches of a batch meet: none, or one at the k-th fetch
Faults ==
    {[i \in 1..MAX_SEGMENTS_PER_REQUEST |-> "none"]}
    \cup {[i \in 1..MAX_SEGMENTS_PER_REQUEST |-> IF i = k THEN kind ELSE "none"] :
             k \in 1..MAX_SEGMENTS_PER_REQUEST, kind \in {"status", "network"}}

\* the largest start index asked for
MaxStart == 5

\* the start parameters of a progressive request
Starts ==
    {ToStr(n) : n \in -2..MaxStart} \cup {<<"x">>, <<"1", "x">>, <<" ", "1">>}

\* the largest chunk index asked for
MaxChunk == 2

\* the chunk and segment parameters of a request
ChunkParams == {ToStr(n) : n \in 0..MaxChunk}

\* the headers parameter of a request: JSON of an object with no member, with
\* a Referer, and with a Range header of its own, in either case of the name
ForwardedHeaders ==
    {JSONstringify(<<>>),
     JSONstringify(<<[name |-> "Referer", value |-> <<"h", "t", "t", "p", ":", "/", "/", "r", "/">>]>>),
     JSONstringify(<<[name |-> "Range", value |-> ClosedRange(0, 0)]>>),
     JSONstringify(<<[name |-> "range", value |-> ClosedRange(0, 0)]>>)}

\* the requests of the MP4 route: of every client class with every query, with
\* and without a Range header, as GET and HEAD; progressive requests from
\* every start with every failure; and requests that are refused
StrategyRequests ==
    {[method |-> m, userAgent |-> ua, query |-> q, rangeHeader |-> h,
      url |-> MP4_B, headers |-> null, faults |-> [i \in 1..MAX_SEGMENTS_PER_REQUEST |-> "none"]] :
        m \in {"GET", "HEAD"}, ua \in UserAgents, q \in FlagQueries,
        h \in {absent, ClosedRange(0, 0)}}
    \cup {[method |-> "GET", userAgent |-> UA_CHROME,
           query |-> Query(<<<<"progressive", <<"t", "r", "u", "e">>>>, <<"start", n>>>>),
           rangeHeader |-> absent, url |-> url, headers |-> null, faults |-> f] :
             n \in Starts, url \in {MP4_A, MP4_C}, f \in Faults}
    \cup {[method |-> "GET", userAgent |-> UA_CHROME, query |-> <<>>,
           rangeHeader |-> absent, url |-> url, headers |-> null, faults |-> f] :
             url \in {MP4_A, MP4_C}, f \in Faults}
    \cup {[method |-> m, userAgent |-> UA_CHROME, query |-> <<>>,
           rangeHeader |-> absent, url |-> r.url, headers |-> r.headers,
           faults |-> [i \in 1..MAX_SEGMENTS_PER_REQUEST |-> "none"]] :
             m \in {"GET", "HEAD"},
             r \in {[url |-> absent, headers |-> null],
                    [url |-> MP4_B, headers |-> [garbage |-> TRUE]]}}
    \cup {[method |-> "GET", userAgent |-> ua,
           query |-> Query(<<<<"chunked", <<"t", "r", "u", "e">>>>, <<"chunk", n>>>>),
           rangeHeader |-> absent, url |-> url, headers |-> h,
           faults |-> [i \in 1..MAX_SEGMENTS_PER_REQUEST |-> "none"]] :
             ua \in {UA_CHROME, UA_BRAVE}, n \in ChunkParams,
             url \in {MP4_B, MP4_C}, h \in ForwardedHeaders}
    \cup {[method |-> "GET", userAgent |-> ua,
           query |-> Query(<<<<"segment", n>>>>),
           rangeHeader |-> absent, url |-> MP4_C, headers |-> h,
           faults |-> [i \in 1..MAX_SEGMENTS_PER_REQUEST |-> "none"]] :
             ua \in {UA_CHROME, UA_FIREFOX}, n \in ChunkParams,
             h \in ForwardedHeaders}

-----------------------------------------------------------------------------
(* Specifications *)

HotIdle ==
    /\ segmentCache = <<>>
    /\ now = 0
    /\ inflight = EmptyBag
    /\ scheduled = {}
    /\ lastGet = null
    /\ tsSegmentCache = <<>>
    /\ cacheDisabled = FALSE

MP4Idle ==
    /\ upstream = Compliant
    /\ deployed = "s.ts"
    /\ request = null
    /\ response = null

\* no write under way, no request counted, every route and the cache enabled
JobsIdle ==
    /\ tsWrites = <<>>
    /\ analytics = CacheAnalytics
    /\ config = [DISABLE_CACHE |-> FALSE, DISABLE_M3U8 |-> FALSE,
                 DISABLE_MP4 |-> FALSE]

WarmIdle ==
    /\ redis = EmptyStore
    /\ isConnected = FALSE
    /\ warm = null
    /\ JobsIdle

PlaylistIdle == playlist = null

StrategyIdle == strategy = null

\* the manifest generators alone
InitManifest ==
    ManifestInit /\ RangeIdle /\ HotIdle /\ MP4Idle /\ WarmIdle /\ PlaylistIdle
NextManifest == GenerateManifest \/ MakeMP4Playlist
SpecManifest == InitManifest /\ [][NextManifest]_vars

\* the MP4 strategy handler against every origin
InitStrategy ==
    /\ RangeIdle /\ HotIdle /\ WarmIdle /\ PlaylistIdle /\ StrategyIdle
    /\ upstream \in UpstreamConfigs
    /\ deployed = "part_003.strategy"
    /\ request = null
    /\ response = null

NextStrategy ==
    \/ /\ Idle
       /\ \E asked \in StrategyRequests :
              MP4Strategy(asked.method, asked.userAgent, asked.query,
                          asked.rangeHeader, asked.url, asked.headers, asked.faults)
    \/ Return

SpecStrategy == InitStrategy /\ [][NextStrategy]_vars

\* the range negotiator alone
InitRange == RangeInit /\ HotIdle /\ MP4Idle /\ WarmIdle /\ PlaylistIdle /\ StrategyIdle
SpecRange == InitRange /\ [][NextRange]_vars

\* the Range headers of the hot tier's clients: none, and the first prefetch window
HotRangeHeaders == {absent, ClosedRange(0, 1)}

\* the hot tiers behind the cache backed proxyMP4, against a compliant origin
InitHot ==
    /\ RangeIdle /\ WarmIdle /\ PlaylistIdle /\ StrategyIdle
    /\ segmentCache = <<>>
    /\ now = 0
    /\ inflight = EmptyBag
    /\ scheduled = {}
    /\ lastGet = null
    /\ tsSegmentCache = <<>>
    /\ cacheDisabled \in BOOLEAN
    /\ upstream = Compliant
    /\ deployed = "part_002.cached"
    /\ request = null
    /\ response = null

NextHot ==
    \/ \E url \in URLs, rangeHeader \in HotRangeHeaders :
           ProxyMP4Cached(url, rangeHeader)
    \/ Idle /\ \E job \in scheduled : RunPrefetch(job)
    \/ Idle /\ \E fetch \in BagToSet(inflight) : PrefetchArrives(fetch)
    \/ Idle /\ \E fetch \in BagToSet(inflight) : PrefetchFails(fetch)
    \/ CleanupCache
    \/ Tick
    \/ \E url \in URLs : GetCachedSegment(url)
    \/ Return

SpecHot == InitHot /\ [][NextHot]_vars

\* the highest byte position a client's Range header names
MaxReqByte == 5

\* the Range headers of the MP4 clients
MP4RangeHeaders ==
    {ClosedRange(s, e) : s \in 0..MaxReqByte, e \in 0..MaxReqByte}
    \cup {OpenRange(s) : s \in 0..MaxReqByte}
    \cup {SuffixRange(n) : n \in 0..MaxReqByte}
    \cup PaddedHeaders
    \cup {absent, BYTES_EQ \o <<"-">>, BYTES_EQ \o <<"a", "-", "b">>,
          BYTES_EQ \o <<"0", "-", "1", ",", "2", "-", "3">>,
          <<"i", "t", "e", "m", "s", "=", "0", "-", "1">>}

\* the resource the MP4 clients ask for
MP4URLs == {MP4_B}

\* the MP4 route with one of its handlers deployed, against any origin
InitMP4 ==
    /\ RangeIdle /\ WarmIdle /\ PlaylistIdle /\ StrategyIdle
    /\ segmentCache = <<>>
    /\ now = 0
    /\ inflight = EmptyBag
    /\ scheduled = {}
    /\ lastGet = null
    /\ tsSegmentCache = <<>>
    /\ cacheDisabled \in BOOLEAN
    /\ upstream \in UpstreamConfigs
    /\ deployed \in Handlers
    /\ request = null
    /\ response = null

NextMP4 ==
    \/ \E url \in MP4URLs, rangeHeader \in MP4RangeHeaders :
           ProxyMP4_s(url, rangeHeader)
    \/ \E url \in MP4URLs, rangeHeader \in MP4RangeHeaders :
           ProxyMP4_part003(url, rangeHeader)
    \/ \E url \in MP4URLs, rangeHeader \in MP4RangeHeaders :
           ProxyMP4Forwarding(url, rangeHeader)
    \/ \E url \in MP4URLs, rangeHeader \in MP4RangeHeaders :
           ProxyMP4Cached(url, rangeHeader)
    \/ Idle /\ \E job \in scheduled : RunPrefetch(job)
    \/ Idle /\ \E fetch \in BagToSet(inflight) : PrefetchArrives(fetch)
    \/ Idle /\ \E fetch \in BagToSet(inflight) : PrefetchFails(fetch)
    \/ Return

SpecMP4 == InitMP4 /\ [][NextMP4]_vars

\* the warm tier alone, over the keyspace it may find
InitWarm ==
    /\ RangeIdle /\ HotIdle /\ MP4Idle /\ PlaylistIdle /\ StrategyIdle
    /\ redis \in InitialStores
    /\ isConnected = FALSE
    /\ warm = null
    /\ JobsIdle

NextWarm ==
    \/ Idle /\ Connect
    \/ Idle /\ Disconnect
    \/ \E url \in {TS_URL}, rejects \in BOOLEAN : RedisGet(url, rejects)
    \/ \E url \in {TS_URL}, entry \in WarmEntries(now) :
           RedisSet(url, entry, FALSE)
    \/ \E url \in {TS_URL}, rejects \in BOOLEAN : RedisDelete(url, rejects)
    \/ \E url \in {TS_URL}, chunkIndex \in ChunkIndexes, rejects \in BOOLEAN :
           RedisGetMP4Chunk(url, chunkIndex, rejects)
    \/ \E url \in {TS_URL}, chunkIndex \in ChunkIndexes, entry \in WarmEntries(now) :
           RedisSetMP4Chunk(url, chunkIndex, entry, FALSE)
    \/ \E url \in {TS_URL}, chunkIndex \in ChunkIndexes, rejects \in BOOLEAN :
           RedisDeleteMP4Chunk(url, chunkIndex, rejects)
    \/ Tick
    \/ Return

SpecWarm == InitWarm /\ [][NextWarm]_vars

\* the playlist endpoint alone
InitPlaylist == RangeIdle /\ HotIdle /\ MP4Idle /\ WarmIdle /\ PlaylistIdle /\ StrategyIdle

\* the answers of the upstream to the fetch of a playlist
PlaylistAnswers ==
    {[ok |-> FALSE]} \cup {[ok |-> TRUE, text |-> m] : m \in Manifests}

\* the requests of the playlist endpoint with the upstream's answer; a request
\* refused for its parameters fetches nothing
PlaylistRequests ==
    {[url |-> M3U8_URL, headers |-> h, fetched |-> f] :
        h \in {null, JSONstringify(<<>>),
               JSONstringify(<<[name |-> <<"R", "e", "f", "e", "r", "e", "r">>, value |-> <<"h", "t", "t", "p", ":", "/", "/", "r", "/">>]>>)},
        f \in PlaylistAnswers}
    \cup {[url |-> absent, headers |-> null, fetched |-> [ok |-> FALSE]],
          [url |-> M3U8_URL, headers |-> [garbage |-> TRUE],
           fetched |-> [ok |-> FALSE]]}

\* the answers of the upstream to the fetch of the segment endpoint: a failure,
\* a segment, and manifests
SegmentAnswers ==
    {[ok |-> FALSE],
     [ok |-> TRUE, contentType |-> "video/mp2t", text |-> <<"G">>,
      data |-> <<71, 64, 17>>]}
    \cup {[ok |-> TRUE, contentType |-> "application/vnd.apple.mpegurl",
           text |-> m] : m \in Manifests}

\* the requests of the segment endpoint with the upstream's answer: for a
\* playlist with and without lb=local, for a segment (answered with a failure,
\* a segment or a manifest of one short line), for base64 data, and requests
\* refused for their parameters
SegmentRequests ==
    {[u |-> Base64Encode(Utf8(M3U8_URL)), lb |-> a.lb, headers |-> a.headers,
      fetched |-> f] :
        a \in {[lb |-> <<"l", "o", "c", "a", "l">>, headers |-> null],
               [lb |-> absent,
                headers |-> JSONstringify(<<[name |-> <<"R", "e", "f", "e", "r", "e", "r">>, value |-> <<"h", "t", "t", "p", ":", "/", "/", "r", "/">>]>>)]},
        f \in SegmentAnswers}
    \cup {[u |-> Base64Encode(Utf8(TS_URL)), lb |-> <<"l", "o", "c", "a", "l">>, headers |-> null,
           fetched |-> f] :
             f \in {g \in SegmentAnswers : g.ok => Len(g.text) <= 7}}
    \cup {[u |-> absent, lb |-> absent, headers |-> null, fetched |-> [ok |-> FALSE]],
          [u |-> Base64Encode(Utf8(M3U8_URL)), lb |-> absent,
           headers |-> [garbage |-> TRUE], fetched |-> [ok |-> FALSE]],
          [u |-> Base64Encode(Utf8(Base64Encode(<<71, 64, 17>>))), lb |-> absent,
           headers |-> null, fetched |-> [ok |-> FALSE]]}

NextPlaylist ==
    \/ /\ Idle
       /\ \E asked \in PlaylistRequests :
              ProxyM3U8(asked.url, asked.headers, asked.fetched)
    \/ /\ Idle
       /\ \E asked \in SegmentRequests :
              ProxyTS(asked.u, asked.lb, asked.headers, asked.fetched, FALSE)
    \/ Return

SpecPlaylist == InitPlaylist /\ [][NextPlaylist]_vars

\* the most writes that may be under way, and the most requests counted
MaxJobs == 2
MaxRecorded == 3

\* the segments the upstream serves for TS_URL
TSPayloads == {<<71, 64, 17, 0>>, <<71, 64, 17, 1>>}

\* the requests of the segment endpoint for TS_URL with the upstream's answer:
\* a failure, a segment, a manifest typed as one, a manifest typed as a
\* segment; and requests refused for their parameters
TSRequests ==
    {[u |-> Base64Encode(Utf8(TS_URL)), lb |-> absent, headers |-> null,
      fetched |-> f] :
        f \in {[ok |-> FALSE],
               [ok |-> TRUE, contentType |-> "application/vnd.apple.mpegurl",
                text |-> <<"#", "E", "X", "T", "M", "3", "U">>],
               [ok |-> TRUE, contentType |-> "video/mp2t",
                text |-> <<"#", "E", "X", "T", "M", "3", "U">>,
                data |-> Utf8(<<"#", "E", "X", "T", "M", "3", "U">>)]}
              \cup {[ok |-> TRUE, contentType |-> "video/mp2t", text |-> <<"G">>,
                     data |-> p] : p \in TSPayloads}}
    \cup {[u |-> absent, lb |-> absent, headers |-> null, fetched |-> [ok |-> FALSE]],
          [u |-> Base64Encode(Utf8(TS_URL)), lb |-> absent,
           headers |-> [garbage |-> TRUE], fetched |-> [ok |-> FALSE]]}

\* the segment endpoint over the warm tier, with the writes it leaves behind
InitSegment ==
    /\ RangeIdle /\ HotIdle /\ MP4Idle /\ PlaylistIdle /\ StrategyIdle
    /\ redis \in {store \in InitialStores : DOMAIN store \subseteq {getCacheKey(TS_URL)}}
    /\ isConnected = FALSE
    /\ warm = null
    /\ JobsIdle

NextSegment ==
    \/ Idle /\ Connect
    \/ Idle /\ Disconnect
    \/ /\ Idle
       /\ Len(tsWrites) < MaxJobs
       /\ analytics.totalRequests + Len(tsWrites) < MaxRecorded
       /\ \E asked \in TSRequests, rejects \in BOOLEAN :
              ProxyTS(asked.u, asked.lb, asked.headers, asked.fetched, rejects)
    \/ \E i \in 1..Len(tsWrites), rejects \in BOOLEAN : PresenceChecked(i, rejects)
    \/ \E i \in 1..Len(tsWrites), rejects \in BOOLEAN : SegmentStored(i, rejects)
    \/ \E rejects \in BOOLEAN : RedisGet(TS_URL, rejects)
    \/ \E rejects \in BOOLEAN :
           RedisSet(TS_URL, [data |-> <<72, 105>>, headers |-> <<>>,
                             timestamp |-> now], rejects)
    \/ \E rejects \in BOOLEAN : RedisDelete(TS_URL, rejects)
    \/ Return

SpecSegment == InitSegment /\ [][NextSegment]_vars

\* the requests of the three endpoints that meet a guard, and one of each
\* that passes them
GuardedPlaylistRequests ==
    {[url |-> M3U8_URL, headers |-> null,
      fetched |-> [ok |-> TRUE, text |-> <<"s", "e", "g", "1", ".", "t", "s">>]],
     [url |-> absent, headers |-> null, fetched |-> [ok |-> FALSE]],
     [url |-> absent, headers |-> [garbage |-> TRUE], fetched |-> [ok |-> FALSE]],
     [url |-> M3U8_URL, headers |-> [garbage |-> TRUE], fetched |-> [ok |-> FALSE]]}

GuardedSegmentRequests ==
    TSRequests
    \cup {[u |-> Base64Encode(Utf8(M3U8_URL)), lb |-> <<"l", "o", "c", "a", "l">>,
           headers |-> h,
           fetched |-> [ok |-> TRUE, contentType |-> "application/vnd.apple.mpegurl",
                        text |-> <<"s", "e", "g", "1", ".", "t", "s">>]] :
             h \in {null, [garbage |-> TRUE]}}

GuardedMP4Requests ==
    {[method |-> m, userAgent |-> UA_CHROME, query |-> <<>>, rangeHeader |-> absent,
      url |-> a.url, headers |-> a.headers,
      faults |-> [i \in 1..MAX_SEGMENTS_PER_REQUEST |-> "none"]] :
        m \in {"GET", "HEAD"},
        a \in {[url |-> MP4_B, headers |-> null],
               [url |-> absent, headers |-> null],
               [url |-> MP4_B, headers |-> [garbage |-> TRUE]]}}

\* the three endpoints with either route enabled or disabled, over a warm
\* tier that holds a segment or none
InitEndpoints ==
    /\ RangeIdle /\ HotIdle /\ MP4Idle /\ PlaylistIdle /\ StrategyIdle
    /\ redis \in {store \in InitialStores : DOMAIN store \subseteq {getCacheKey(TS_URL)}}
    /\ isConnected = FALSE
    /\ warm = null
    /\ tsWrites = <<>>
    /\ analytics = CacheAnalytics
    /\ config \in [DISABLE_CACHE : {FALSE}, DISABLE_M3U8 : BOOLEAN,
                   DISABLE_MP4 : BOOLEAN]

NextEndpoints ==
    \/ Idle /\ Connect
    \/ Idle /\ Disconnect
    \/ /\ Idle
       /\ \E asked \in GuardedPlaylistRequests :
              ProxyM3U8(asked.url, asked.headers, asked.fetched)
    \/ /\ Idle
       /\ Len(tsWrites) < 1
       /\ analytics.totalRequests < 1
       /\ \E asked \in GuardedSegmentRequests :
              ProxyTS(asked.u, asked.lb, asked.headers, asked.fetched, FALSE)
    \/ /\ Idle
       /\ \E asked \in GuardedMP4Requests :
              MP4Strategy(asked.method, asked.userAgent, asked.query,
                          asked.rangeHeader, asked.url, asked.headers, asked.faults)
    \/ \E i \in 1..Len(tsWrites) : PresenceChecked(i, FALSE)
    \/ \E i \in 1..Len(tsWrites) : SegmentStored(i, FALSE)
    \/ Return

SpecEndpoints == InitEndpoints /\ [][NextEndpoints]_vars

\* every tier with config.DISABLE_CACHE set, the environment's DISABLE_CACHE
\* set or not: the cache backed proxyMP4 with its prefetches, the segment
\* endpoint over a warm tier that holds a segment or none, getCachedSegment
InitDisabled ==
    /\ RangeIdle /\ PlaylistIdle /\ StrategyIdle
    /\ segmentCache = <<>>
    /\ now = 0
    /\ inflight = EmptyBag
    /\ scheduled = {}
    /\ lastGet = null
    /\ tsSegmentCache = <<>>
    /\ cacheDisabled \in BOOLEAN
    /\ upstream = Compliant
    /\ deployed = "part_002.cached"
    /\ request = null
    /\ response = null
    /\ redis \in {store \in InitialStores : DOMAIN store \subseteq {getCacheKey(TS_URL)}}
    /\ isConnected = FALSE
    /\ warm = null
    /\ tsWrites = <<>>
    /\ analytics = CacheAnalytics
    /\ config = [DISABLE_CACHE |-> TRUE, DISABLE_M3U8 |-> FALSE,
                 DISABLE_MP4 |-> FALSE]

NextDisabled ==
    \/ Idle /\ Connect
    \/ Idle /\ Disconnect
    \/ \E rangeHeader \in HotRangeHeaders : ProxyMP4Cached(MP4_A, rangeHeader)
    \/ Idle /\ \E job \in scheduled : RunPrefetch(job)
    \/ Idle /\ \E fetch \in BagToSet(inflight) : PrefetchArrives(fetch)
    \/ Idle /\ \E fetch \in BagToSet(inflight) : PrefetchFails(fetch)
    \/ GetCachedSegment(TS_URL)
    \/ \E asked \in TSRequests, rejects \in BOOLEAN :
           ProxyTS(asked.u, asked.lb, asked.headers, asked.fetched, rejects)
    \/ Return

SpecDisabled == InitDisabled /\ [][NextDisabled]_vars

\* the cache backed proxyMP4 with the prefetches it schedules: a prefetch
\* runs whenever its timer or its fetch allows, also while a response is
\* being sent, and the origin may stop answering GET in between
InitPrefetch ==
    /\ RangeIdle /\ WarmIdle /\ PlaylistIdle /\ StrategyIdle /\ HotIdle
    /\ upstream = Compliant
    /\ deployed = "part_002.cached"
    /\ request = null
    /\ response = null

NextPrefetch ==
    \/ \E url \in URLs, rangeHeader \in HotRangeHeaders :
           ProxyMP4Cached(url, rangeHeader)
    \/ \E job \in scheduled : RunPrefetch(job)
    \/ \E fetch \in BagToSet(inflight) : PrefetchArrives(fetch)
    \/ \E fetch \in BagToSet(inflight) : PrefetchFails(fetch)
    \/ \E u \in {Compliant, [Compliant EXCEPT !.getOk = FALSE]} : OriginChanges(u)
    \/ Return

SpecPrefetch == InitPrefetch /\ [][NextPrefetch]_vars

-----------------------------------------------------------------------------
(* Claims *)

AllDigits(s) == \A i \in 1..Len(s) : IsDigit(s[i])

\* h is one bytes=<start>-<end>, either side possibly empty
IsSingleForm(h) ==
    \E i \in 1..Len(h) :
        /\ i > Len(BYTES_EQ)
        /\ SubSeq(h, 1, Len(BYTES_EQ)) = BYTES_EQ
        /\ h[i] = "-"
        /\ AllDigits(SubSeq(h, Len(BYTES_EQ) + 1, i - 1))
        /\ AllDigits(SubSeq(h, i + 1, Len(h)))

Parsed == parsed # null /\ parsed.called

\* C5: for 0 <= start <= end < L, parseRangeHeader("bytes=<start>-<end>", L) is
\* exactly {start, end}, and for 0 <= start < L, "bytes=<start>-" gives
\* {start, L - 1}.
C5_ExplicitRange ==
    Parsed =>
        \A s \in 0..MaxByte :
            /\ \A e \in s..MaxByte :
                   (parsed.rangeHeader = ClosedRange(s, e) /\ e < parsed.contentLength)
                       => parsed.result = [start |-> s, end |-> e]
            /\ (parsed.rangeHeader = OpenRange(s) /\ s < parsed.contentLength)
                   => parsed.result = [start |-> s, end |-> parsed.contentLength - 1]

C5_Witness ==
    /\ Parsed
    /\ parsed.rangeHeader = ClosedRange(9, 10)
    /\ parsed.contentLength = 11
    /\ parsed.result = [start |-> 9, end |-> 10]

\* C6 as stated: for every N > 0 and every content length L >= 0,
\* parseRangeHeader("bytes=-N", L) is {max(0, L - N), L - 1}.
C6_SuffixAnyLength ==
    Parsed =>
        \A n \in 1..MaxByte :
            parsed.rangeHeader = SuffixRange(n)
                => parsed.result = [start |-> Max(0, parsed.contentLength - n),
                                    end |-> parsed.contentLength - 1]

\* C6 as amended: for every N > 0, parseRangeHeader("bytes=-N", L) is
\* {max(0, L - N), L - 1} when L > 0, and null when L = 0.
C6_SuffixRange ==
    Parsed =>
        \A n \in 1..MaxByte :
            parsed.rangeHeader = SuffixRange(n)
                => parsed.result =
                       IF parsed.contentLength > 0
                       THEN [start |-> Max(0, parsed.contentLength - n),
                             end |-> parsed.contentLength - 1]
                       ELSE null

C6_Witness ==
    /\ Parsed
    /\ parsed.rangeHeader = SuffixRange(3)
    /\ parsed.contentLength = 2
    /\ parsed.result = [start |-> 0, end |-> 1]

\* C7: parseRangeHeader returns null when start > end, start >= contentLength
\* or end >= contentLength, and for every header that is not one
\* bytes=<start>-<end> (any multi-range included); so a non-null result has
\* 0 <= start <= end < contentLength.
C7_InvalidIsNull ==
    Parsed =>
        /\ \A s, e \in 0..MaxByte :
               ( /\ parsed.rangeHeader = ClosedRange(s, e)
                 /\ (s > e \/ s >= parsed.contentLength \/ e >= parsed.contentLength) )
                   => parsed.result = null
        /\ \A s \in 0..MaxByte :
               (parsed.rangeHeader = OpenRange(s) /\ s >= parsed.contentLength)
                   => parsed.result = null
        /\ ~IsSingleForm(parsed.rangeHeader) => parsed.result = null
        /\ parsed.rangeHeader \in MalformedHeaders => parsed.result = null
        /\ parsed.result # null =>
               /\ 0 <= parsed.result.start
               /\ parsed.result.start <= parsed.result.end
               /\ parsed.result.end < parsed.contentLength

C7_Witness ==
    /\ Parsed
    /\ parsed.rangeHeader = ClosedRange(0, 1) \o <<",">> \o <<"2", "-", "3">>
    /\ parsed.contentLength = 10
    /\ parsed.result = null

\* the time to live of a hot tier
TTL(tier) == IF tier = "mp4" THEN CACHE_EXPIRY_MS ELSE TS_CACHE_EXPIRY_MS

\* C1: in every reachable state of the MP4 hot tier, whatever prefetches were
\* started, answered or failed and whatever sweeps ran, segmentCache holds at
\* most CACHE_MAX_SIZE entries.
C1_SizeWithinCapacity == Len(segmentCache) <= CACHE_MAX_SIZE

\* C2: a hot tier lookup never returns an entry older than the tier's time to
\* live; a lookup that finds such an entry returns nothing, leaves the key
\* absent from the Map, and the handler does not serve from the cache.
C2_GetNeverReturnsExpired ==
    lastGet # null =>
        /\ lastGet.returned # null =>
               lastGet.at - lastGet.returned.timestamp <= TTL(lastGet.tier)
        /\ (lastGet.found # null
            /\ lastGet.at - lastGet.found.timestamp > TTL(lastGet.tier)) =>
               /\ lastGet.returned = null
               /\ lastGet.after = null
               /\ request # null => response.from # "cache"

\* getCachedChunk found an entry of age 3 ticks, one more than the 2 it may have
C2_Witness ==
    /\ lastGet # null
    /\ lastGet.tier = "mp4"
    /\ lastGet.found # null
    /\ lastGet.at - lastGet.found.timestamp > CACHE_EXPIRY_MS
    /\ lastGet.returned = null
    /\ lastGet.after = null

\* the origin says it takes byte ranges, serves them, and tells the length
SupportsRanges(u) ==
    /\ u.headOk /\ u.getOk /\ u.headLength
    /\ u.acceptRanges = "bytes" /\ u.ranges = "honour"

\* the origin answers HEAD and GET and tells the length in both
Healthy(u) == u.headOk /\ u.getOk /\ u.headLength /\ u.getLength

\* the length of the resource the last request asked for
RequestedLength == Len(Content(request.url))

\* parseRangeHeader's verdict on the last request's Range header
RequestedRange == parseRangeHeader(request.rangeHeader, RequestedLength)

\* C8: when the origin supports byte ranges and parseRangeHeader accepts the
\* request's Range header as [s, e] against the resource length L, the range
\* negotiating handlers (s.ts, part_003, cache backed part_002) answer 206
\* with Content-Range "bytes s-e/L" and a body of e - s + 1 bytes.
C8_AcceptedRangeIs206 ==
    (/\ request # null
     /\ deployed \in {"s.ts", "part_003", "part_002.cached"}
     /\ SupportsRanges(upstream)
     /\ request.rangeHeader # absent
     /\ RequestedRange # null) =>
        /\ response.status = 206
        /\ response.contentRange =
               ContentRange(RequestedRange.start, RequestedRange.end, RequestedLength)
        /\ Len(response.body) = RequestedRange.end - RequestedRange.start + 1

\* bytes=0-1 of the 5 byte resource, served from the hot tier
C8_Witness ==
    /\ request = Request(MP4_B, ClosedRange(0, 1))
    /\ deployed = "part_002.cached"
    /\ SupportsRanges(upstream)
    /\ response.from = "cache"
    /\ response.status = 206
    /\ response.contentRange = ContentRange(0, 1, 5)
    /\ response.body = <<20, 21>>

\* C9: when the origin is healthy and the request's Range header is malformed
\* or unsatisfiable against the resource length, the response is the complete
\* resource: status 200, Content-Length the full length, no Content-Range.
C9_BadRangeFallsBackToFull ==
    (/\ request # null
     /\ Healthy(upstream)
     /\ request.rangeHeader # absent
     /\ RequestedRange = null) =>
        /\ response.status = 200
        /\ response.contentLength = ToStr(RequestedLength)
        /\ response.contentRange = absent
        /\ response.body = Content(request.url)

\* the envelope a stored record holds, when its value is JSON
Envelope(record) == JSONparse(record.value).value

IsVersion2(envelope) ==
    Member(envelope, "version").defined /\ Member(envelope, "version").value = 2

\* a read made while the tier is connected, its command answered, that found
\* the key unexpired
ReadFound ==
    /\ warm # null
    /\ warm.op = "get"
    /\ isConnected /\ ~warm.rejects
    /\ warm.stored # null

\* C3: while the tier is connected and the key has not expired, a get or
\* getMP4Chunk of a key last written by set or setMP4Chunk with the entry
\* {P, H, t} returns the payload P byte for byte, the headers H and the
\* timestamp t; and every envelope these writers store has version 2.
C3_RoundTrip ==
    /\ (ReadFound /\ warm.stored.by = "set") =>
           /\ warm.read.entry # null
           /\ warm.read.entry.data = warm.stored.written.data
           /\ warm.read.entry.headers = warm.stored.written.headers
           /\ warm.read.entry.timestamp = warm.stored.written.timestamp
    /\ \A key \in DOMAIN redis :
           redis[key].by = "set" =>
               /\ JSONparse(redis[key].value).ok
               /\ IsVersion2(Envelope(redis[key]))

\* a chunk written with a payload that itself starts like a gzip member and
\* with a header is read back in full
C3_Witness ==
    /\ ReadFound
    /\ warm.key = getMP4ChunkKey(TS_URL, 1)
    /\ warm.stored.by = "set"
    /\ warm.stored.written.data = <<31, 139, 8, 0, 0>>
    /\ warm.stored.written.headers # <<>>
    /\ warm.read.entry = warm.stored.written

\* C4: a get that finds a JSON envelope calls gunzip exactly when the
\* envelope's version is 2; an envelope of version 1 or without a version
\* yields the base64-decoded bytes of its data as they are.
C4_GunzipIffVersion2 ==
    (ReadFound /\ JSONparse(warm.stored.value).ok) =>
        /\ warm.read.gunzipped <=> IsVersion2(Envelope(warm.stored))
        /\ ~IsVersion2(Envelope(warm.stored)) =>
               /\ warm.read.entry # null
               /\ warm.read.entry.data =
                      Base64Decode(Member(Envelope(warm.stored), "data").value)

\* an envelope without version field is read back as the bytes stored
C4_Witness ==
    /\ ReadFound
    /\ JSONparse(warm.stored.value).ok
    /\ ~Member(Envelope(warm.stored), "version").defined
    /\ ~warm.read.gunzipped
    /\ warm.read.entry = LegacyEntry

\* a playlist request that reached the rewrite: url given, headers parsed and
\* the manifest fetched
RewriteRan ==
    /\ playlist # null
    /\ playlist.endpoint = "m3u8-proxy.ts"
    /\ playlist.url # absent
    /\ playlist.headers # null => JSONparse(playlist.headers).ok
    /\ playlist.fetched.ok

\* the lines the claim lets change: URI lines (not blank, not starting with #)
\* and key lines, and in a master playlist media lines, with an absolute URL
Rewritable(line, master) ==
    \/ ~StartsWith(line, <<"#">>) /\ Trim(line) # <<>>
    \/ /\ \/ StartsWith(line, <<"#", "E", "X", "T", "-", "X", "-", "K", "E", "Y", ":">>)
          \/ master /\ StartsWith(line, <<"#", "E", "X", "T", "-", "X", "-", "M", "E", "D", "I", "A", ":">>)
       /\ URLMatches(line) # {}

\* C10: for every manifest the rewritten playlist has as many lines as the
\* manifest, and line i differs from the manifest's line i exactly when that
\* line is a URI line, or a key line (in a master playlist also a media line)
\* holding an absolute http(s) URL.
C10_OnlyRewritableLinesChange ==
    RewriteRan =>
        /\ playlist.response.status = 200
        /\ Len(Split(playlist.response.body, <<"\n">>))
               = Len(Split(playlist.fetched.text, <<"\n">>))
        /\ \A i \in 1..Len(Split(playlist.fetched.text, <<"\n">>)) :
               (Split(playlist.response.body, <<"\n">>)[i]
                    # Split(playlist.fetched.text, <<"\n">>)[i])
               <=> Rewritable(Split(playlist.fetched.text, <<"\n">>)[i],
                              IndexOf(playlist.fetched.text,
                                      <<"R", "E", "S", "O", "L", "U", "T", "I", "O", "N", "=">>) > 0)

\* the rewrite a request ran: the playlist's URL, the headers and the &lb text
\* of the proxy URLs and whether the playlist was taken for a master playlist,
\* or null when the request ended before its loop over the
\* lines (a request of the segment endpoint for a playlist URL with lb=local
\* is answered by the playlist endpoint)
RewriteOf(p) ==
    IF p = null THEN null
    ELSE IF p.endpoint = "m3u8-proxy.ts"
    THEN IF /\ p.url # absent
            /\ p.headers # null => JSONparse(p.headers).ok
            /\ p.fetched.ok
         THEN [url |-> p.url, lb |-> <<"&", "l", "b", "=", "l", "o", "c", "a", "l">>,
               master |-> IndexOf(p.fetched.text, <<"R", "E", "S", "O", "L", "U", "T", "I", "O", "N", "=">>) > 0,
               headers |-> IF p.headers = null THEN <<>> ELSE JSONparse(p.headers).value]
         ELSE null
    ELSE IF p.u = absent \/ ~p.fetched.ok THEN null
    ELSE IF p.lb = <<"l", "o", "c", "a", "l">> /\ Len(p.url) >= 5 /\ From(p.url, Len(p.url) - 4) = <<".", "m", "3", "u", "8">>
    THEN IF p.headers # null => JSONparse(p.headers).ok
         THEN [url |-> p.url, lb |-> <<"&", "l", "b", "=", "l", "o", "c", "a", "l">>,
               master |-> IndexOf(p.fetched.text, <<"R", "E", "S", "O", "L", "U", "T", "I", "O", "N", "=">>) > 0,
               headers |-> IF p.headers = null THEN <<>> ELSE JSONparse(p.headers).value]
         ELSE null
    ELSE IF /\ p.headers # null => JSONparse(p.headers).ok
            /\ StartsWith(p.url, <<"h", "t", "t", "p", ":", "/", "/">>) \/ StartsWith(p.url, <<"h", "t", "t", "p", "s", ":", "/", "/">>)
            /\ \/ p.fetched.contentType \in {"application/vnd.apple.mpegurl",
                                             "application/x-mpegurl"}
               \/ StartsWith(p.fetched.text, <<"#", "E", "X", "T", "M", "3", "U">>)
    THEN [url |-> p.url, lb |-> <<>>, master |-> FALSE,
          headers |-> IF p.headers = null THEN <<>> ELSE JSONparse(p.headers).value]
    ELSE null

\* the URI lines of a manifest that resolve against the playlist's URL
ResolvingURILines(lines, url) ==
    {i \in 1..Len(lines) : /\ ~StartsWith(lines[i], <<"#">>)
                           /\ Trim(lines[i]) # <<>>
                           /\ parseURL(lines[i], url).ok}

\* the lines as the loop pushed them: the lines of the response, or the
\* loop's list when the request ended in an error after it (null where the
\* turn threw)
Pushed(p, r, lines) ==
    IF p.response.status = 200 THEN Split(p.response.body, <<"\n">>)
    ELSE [i \in 1..Len(lines) |->
             IF RewriteLine(lines[i], r.url, r.headers, r.master, r.lb).threw
             THEN null
             ELSE RewriteLine(lines[i], r.url, r.headers, r.master, r.lb).line]

\* the text of the u parameter of a proxy URL
UParameter(proxyUrl) ==
    SubSeq(proxyUrl, 6, IndexOf(proxyUrl, <<"&", "h", "e", "a", "d", "e", "r", "s", "=">>) - 1)

\* out is a proxy URL for href
DecodesTo(out, href) ==
    /\ StartsWith(out, <<"/", "s", "?", "u", "=">>)
    /\ IndexOf(out, <<"&", "h", "e", "a", "d", "e", "r", "s", "=">>) > 0
    /\ Text(Base64Decode(UParameter(out))) = href

URILinesDecodable(p, r, lines) ==
    \E out \in {Pushed(p, r, lines)} :
    \E href \in {[i \in ResolvingURILines(lines, r.url) |->
                     parseURL(lines[i], r.url).href]} :
        \A i \in DOMAIN href :
            /\ DecodesTo(out[i], href[i])
            /\ \A j \in DOMAIN href : href[i] # href[j] => out[i] # out[j]

\* C11: on the playlist endpoint and on the segment endpoint, every URI line
\* that resolves against the playlist's URL is rewritten to a proxy URL whose u
\* parameter base64-decodes to the resolved absolute URL, and URI lines that
\* resolve to different URLs are rewritten to different proxy URLs.
C11_URILinesDecodeToResolvedURL ==
    RewriteOf(playlist) # null =>
        URILinesDecodable(playlist, RewriteOf(playlist),
                          Split(playlist.fetched.text, <<"\n">>))

\* a playlist answered with two URI lines that resolve to different URLs
C11_Witness ==
    /\ RewriteOf(playlist) # null
    /\ playlist.response.status = 200
    /\ \E i, j \in ResolvingURILines(Split(playlist.fetched.text, <<"\n">>),
                                     playlist.url) :
           parseURL(Split(playlist.fetched.text, <<"\n">>)[i], playlist.url).href
               # parseURL(Split(playlist.fetched.text, <<"\n">>)[j], playlist.url).href

\* the key lines of a manifest
KeyLines(lines) ==
    {i \in 1..Len(lines) : StartsWith(lines[i], <<"#", "E", "X", "T", "-", "X", "-", "K", "E", "Y", ":">>)}

\* out is line with the URL at a..b replaced by a proxy URL for it
ReplacedAt(line, out, a, b) ==
    /\ Len(out) >= Len(line) - (b - a + 1)
    /\ SubSeq(out, 1, a - 1) = SubSeq(line, 1, a - 1)
    /\ From(out, Len(out) - (Len(line) - b) + 1) = From(line, b + 1)
    /\ DecodesTo(From(out, a), SubSeq(line, a, b))

\* the end of the URL that starts at a: the URL runs up to the next white
\* space or quote
URLEnd(line, a) ==
    CHOOSE b \in a..Len(line) :
        /\ \A k \in a..b : line[k] \notin WhiteSpace \cup {"\""}
        /\ b = Len(line) \/ line[b + 1] \in WhiteSpace \cup {"\""}

\* out is line with its first absolute http(s) URL, if it has one, replaced
FirstURLReplaced(line, out, matches) ==
    IF matches = {} THEN out = line
    ELSE \E a \in matches :
            /\ \A j \in matches : a <= j
            /\ ReplacedAt(line, out, a, URLEnd(line, a))

KeyLinesReplaced(p, r, lines) ==
    \E out \in {Pushed(p, r, lines)} :
        \A i \in KeyLines(lines) :
            FirstURLReplaced(lines[i], out[i], URLMatches(lines[i]))

\* C12: a key line holding an absolute http(s) URL is rewritten to the same
\* line with its first such URL replaced by the proxy URL for it, the text
\* before and after the URL unchanged; a key line without one is unchanged.
C12_KeyLineOnlyURLReplaced ==
    RewriteOf(playlist) # null =>
        KeyLinesReplaced(playlist, RewriteOf(playlist),
                         Split(playlist.fetched.text, <<"\n">>))

\* a playlist answered with a key line holding a URL twice and one without
C12_Witness ==
    /\ RewriteOf(playlist) # null
    /\ playlist.response.status = 200
    /\ \E i, j \in KeyLines(Split(playlist.fetched.text, <<"\n">>)) :
           /\ Cardinality(URLMatches(Split(playlist.fetched.text, <<"\n">>)[i])) = 2
           /\ URLMatches(Split(playlist.fetched.text, <<"\n">>)[j]) = {}

\* the URI lines of a manifest that do not resolve against the playlist's URL
UnresolvedURILines(lines, url) ==
    {i \in 1..Len(lines) : /\ ~StartsWith(lines[i], <<"#">>)
                           /\ Trim(lines[i]) # <<>>
                           /\ ~parseURL(lines[i], url).ok}

\* C13: when a URI line of the manifest cannot be resolved against the
\* playlist's URL the request still succeeds, that line is in the response
\* unchanged, and every URI line that resolves is rewritten to its proxy URL.
C13_FailOpenPerLine ==
    /\ RewriteOf(playlist) # null
    /\ UnresolvedURILines(Split(playlist.fetched.text, <<"\n">>), playlist.url) # {}
    => /\ playlist.response.status = 200
       /\ Len(Split(playlist.response.body, <<"\n">>))
              = Len(Split(playlist.fetched.text, <<"\n">>))
       /\ \A i \in UnresolvedURILines(Split(playlist.fetched.text, <<"\n">>),
                                      playlist.url) :
              Split(playlist.response.body, <<"\n">>)[i]
                  = Split(playlist.fetched.text, <<"\n">>)[i]
       /\ \A i \in ResolvingURILines(Split(playlist.fetched.text, <<"\n">>),
                                     playlist.url) :
              DecodesTo(Split(playlist.response.body, <<"\n">>)[i],
                        parseURL(Split(playlist.fetched.text, <<"\n">>)[i],
                                 playlist.url).href)

\* chunks is the partition of totalSize bytes into chunks of chunkSize bytes:
\* as many descriptors as the quotient rounded up, indexed from 0, contiguous
\* from byte 0 to the last byte, each of 1..chunkSize bytes, totalSize in all
IsPartition(chunks, totalSize, chunkSize) ==
    /\ Len(chunks) * chunkSize >= totalSize
    /\ (Len(chunks) - 1) * chunkSize < totalSize
    /\ \A k \in 1..Len(chunks) :
           /\ chunks[k].index = k - 1
           /\ chunks[k].start = IF k = 1 THEN 0 ELSE chunks[k - 1].end + 1
           /\ chunks[k].size = chunks[k].end - chunks[k].start + 1
           /\ chunks[k].size \in 1..chunkSize
    /\ Len(chunks) > 0 => chunks[Len(chunks)].end = totalSize - 1
    /\ Sum([k \in 1..Len(chunks) |-> chunks[k].size]) = totalSize

\* C14: the manifest made for (totalSize, chunkSize) has ceil(totalSize /
\* chunkSize) descriptors indexed from 0; chunk 0 starts at 0, each chunk
\* starts one byte after the end of the one before, the last ends at
\* totalSize - 1, every size is end - start + 1 and lies in 1..chunkSize, and
\* the sizes sum to totalSize; likewise the segments of the MP4 playlist.
C14_ManifestIsPartition ==
    /\ strategy # null /\ "manifest" \in DOMAIN strategy =>
        /\ strategy.manifest.chunkSize
               = IF strategy.customChunkSize = 0 THEN 262144
                 ELSE strategy.customChunkSize
        /\ strategy.manifest.totalChunks = Len(strategy.manifest.chunks)
        /\ IsPartition(strategy.manifest.chunks, strategy.totalSize,
                       strategy.manifest.chunkSize)
    /\ strategy # null /\ "playlist" \in DOMAIN strategy =>
        /\ strategy.playlist.totalSegments = Len(strategy.playlist.segments)
        /\ IsPartition(strategy.playlist.segments, strategy.totalSize,
                       strategy.playlist.segmentSize)

\* the manifest of 1,000,000 bytes in chunks of 262144: 4 chunks, the last of
\* which ends at byte 999999
C14_Witness ==
    /\ strategy # null /\ "manifest" \in DOMAIN strategy
    /\ strategy.totalSize = 1000000
    /\ strategy.manifest.chunkSize = 262144
    /\ strategy.manifest.totalChunks = 4
    /\ strategy.manifest.chunks[4].end = 999999
    /\ strategy.manifest.chunks[4].size = 999999 - 3 * 262144 + 1

\* a GET of the MP4 route that reached the selection of a strategy
Classified ==
    /\ strategy # null
    /\ "selected" \in DOMAIN strategy
    /\ strategy.method = "GET"
    /\ strategy.url # absent
    /\ strategy.headers = null

\* C15: every MP4 GET from a client whose profile declares preferFullFile
\* (Firefox, Safari) is served by the FullFile strategy, whatever query flags
\* (chunked, chunk, playlist, segment, progressive) it carries
C15_PreferFullFileForcesFullFile ==
    (Classified /\ BROWSER_CAPABILITIES[strategy.browser].preferFullFile)
        => strategy.selected = "FullFile"

\* the strategies the client profile may decide on
ProfileStrategies == {"RangePassthrough", "ProgressiveBatch", "FullFile"}

\* the strategy of the highest-priority flag the query carries, in the stated
\* order: chunk index, playlist flag, segment index, progressive flag
FlagStrategy(query) ==
    IF Member(query, "chunk").defined THEN "FixedChunk"
    ELSE IF FlagSet(query, "playlist") THEN "Manifest"
    ELSE IF Member(query, "segment").defined THEN "Segment"
    ELSE IF FlagSet(query, "progressive") THEN "ProgressiveBatch"
    ELSE "none"

\* C16: an MP4 GET is served by the strategy of the highest-priority flag it
\* carries (chunk index, then playlist, then segment index, then progressive),
\* and the client profile decides only when it carries none; a request with a
\* chunk index is served as a FixedChunk.  Stated for the clients whose
\* profile does not prefer the full file.
C16_HighestPriorityFlagSelected ==
    (Classified /\ ~BROWSER_CAPABILITIES[strategy.browser].preferFullFile)
        => IF FlagStrategy(strategy.query) = "none"
           THEN strategy.selected \in ProfileStrategies
           ELSE strategy.selected = FlagStrategy(strategy.query)

\* a HEAD of the MP4 route, with a url and valid headers, met by an origin
\* that answers every request and honours ranges
HeadAnswered ==
    /\ strategy # null
    /\ "selected" \in DOMAIN strategy
    /\ strategy.method = "HEAD"
    /\ strategy.url # absent
    /\ strategy.headers = null
    /\ upstream = Compliant

\* C17: a HEAD of the MP4 route is answered, whatever the query flags and the
\* client profile, with the size of the resource in Content-Length, with
\* Accept-Ranges: bytes, and with an empty body
C17_HeadDescribesResource ==
    HeadAnswered
        => /\ strategy.response.contentLength = ToStr(Len(Content(strategy.url)))
           /\ strategy.response.acceptRanges = "bytes"
           /\ strategy.response.body = <<>>

\* a GET that carries no strategy flag, from a client whose profile does not
\* prefer the full file
Unflagged ==
    /\ Classified
    /\ ~BROWSER_CAPABILITIES[strategy.browser].preferFullFile
    /\ FlagStrategy(strategy.query) = "none"
    /\ ~FlagSet(strategy.query, "chunked")

\* C18: an MP4 GET with no strategy flag from a client whose profile does not
\* prefer the full file is served by RangePassthrough when it has a Range
\* header and the profile allows range requests, else by ProgressiveBatch when
\* it has no Range header and the profile supports batching, else by FullFile;
\* the strategy selected is one of these three, the first two served by the
\* passthrough and by the batch function
C18_DefaultStrategyByRangeAndProfile ==
    Unflagged
        => /\ strategy.selected \in ProfileStrategies
           /\ strategy.selected =
                 (IF /\ strategy.rangeHeader # absent
                     /\ BROWSER_CAPABILITIES[strategy.browser].useRangeRequests
                  THEN "RangePassthrough"
                  ELSE IF /\ strategy.rangeHeader = absent
                          /\ BROWSER_CAPABILITIES[strategy.browser].supportsProgressive
                  THEN "ProgressiveBatch"
                  ELSE "FullFile")
           /\ strategy.selected = "ProgressiveBatch"
                 => strategy.serve = "getMP4Progressive"
           /\ strategy.selected # "ProgressiveBatch" => strategy.serve = "proxyMP4"

\* a Chrome GET with a Range header and no flag was passed through: the
\* origin's 206 is relayed
C18_Witness ==
    /\ Unflagged
    /\ strategy.browser = "chrome"
    /\ strategy.rangeHeader # absent
    /\ strategy.selected = "RangePassthrough"
    /\ strategy.response.status = 206
    /\ strategy.response.contentRange # absent

\* a batch was answered 200 by an origin that honours ranges
Batch ==
    /\ Classified
    /\ strategy.serve = "getMP4Progressive"
    /\ strategy.response.status = 200
    /\ upstream.ranges = "honour"

\* the start index a request asks for: the start parameter, 0 without one
StartAsked(query) ==
    IF Member(query, "start").defined /\ Member(query, "start").value # <<>>
    THEN parseInt10(Member(query, "start").value)
    ELSE [nan |-> FALSE, value |-> 0]

\* the number in the X-Segments-Served header
ServedCount(resp) == parseInt(Member(resp.marks, "X-Segments-Served").value)

\* the chunks of the resource: index 0 .. LastChunk(url)
LastChunk(url) == ((Len(Content(url)) + SEGMENT_SIZE - 1) \div SEGMENT_SIZE) - 1

\* the bytes of the chunk with this index
ChunkBytes(url, index) ==
    SubSeq(Content(url), index * SEGMENT_SIZE + 1,
           Min((index + 1) * SEGMENT_SIZE, Len(Content(url))))

\* the bytes of the n chunks from index s on
RECURSIVE ChunksFrom(_, _, _)
ChunksFrom(url, s, n) ==
    IF n = 0 THEN <<>> ELSE ChunkBytes(url, s) \o ChunksFrom(url, s + 1, n - 1)

\* the body is the n chunks s, s+1, ... of the resource, n at most the cap and
\* none beyond the last chunk
IsBatchOf(body, url, s, n) ==
    /\ n <= MAX_SEGMENTS_PER_REQUEST
    /\ n > 0 => (s >= 0 /\ s + n - 1 <= LastChunk(url))
    /\ n > 0 /\ s >= 0 => body = ChunksFrom(url, s, n)
    /\ n = 0 => body = <<>>

\* C19: a ProgressiveBatch response that starts at chunk index s is the bytes
\* of the chunks s, s+1, ... in increasing order, at most
\* MAX_SEGMENTS_PER_REQUEST of them and none beyond the last chunk of the file,
\* and X-Segments-Served is the number of chunks in the body, for every start
\* index a client can send
C19_BatchIsConsecutiveChunks ==
    Batch
        => IF StartAsked(strategy.query).nan
           THEN IsBatchOf(strategy.response.body, strategy.url, 0, 0)
                /\ ServedCount(strategy.response) = 0
           ELSE IsBatchOf(strategy.response.body, strategy.url,
                          StartAsked(strategy.query).value,
                          ServedCount(strategy.response))

\* the turn of the batch whose fetch fails, 0 when none does
FailingTurn(faults) ==
    IF \E k \in DOMAIN faults : faults[k] # "none"
    THEN CHOOSE k \in DOMAIN faults : faults[k] # "none"
    ELSE 0

\* a batch from a chunk of the file on, against an origin that answers every
\* request and honours ranges, in which the fetch of turn k is made and fails
BatchFetchFails(k) ==
    /\ Classified
    /\ strategy.serve = "getMP4Progressive"
    /\ upstream = Compliant
    /\ ~StartAsked(strategy.query).nan
    /\ StartAsked(strategy.query).value >= 0
    /\ k = FailingTurn(strategy.faults)
    /\ k >= 1
    /\ StartAsked(strategy.query).value + k - 1 <= LastChunk(strategy.url)

\* C20: when the fetch of the k-th chunk of a batch fails, by a non-success
\* status or by a network failure, no further chunk is fetched and the
\* response is still a success: its body is the k-1 chunks already fetched
\* and X-Segments-Served is k-1
C20_FailedFetchEndsBatchWithSuccess ==
    \A k \in 1..MAX_SEGMENTS_PER_REQUEST :
        BatchFetchFails(k)
            => /\ strategy.response.status = 200
               /\ Len(strategy.response.ranges) = k
               /\ ServedCount(strategy.response) = k - 1
               /\ strategy.response.body
                     = ChunksFrom(strategy.url, StartAsked(strategy.query).value,
                                  k - 1)

\* a GET with a chunk index was served as a FixedChunk, with a headers
\* parameter, by an origin that answers every request and honours ranges
FixedChunkServed ==
    /\ strategy # null
    /\ "selected" \in DOMAIN strategy
    /\ strategy.method = "GET"
    /\ strategy.selected = "FixedChunk"
    /\ ~parseChunkIndex(strategy.query).nan
    /\ strategy.headers # null
    /\ JSONparse(strategy.headers).ok
    /\ upstream = Compliant

\* the window of chunk index i of a resource of size T for chunks of size c
WindowOf(i, c, T) == [start |-> i * c, end |-> Min(i * c + c - 1, T - 1)]

\* C21: a FixedChunk request with chunk index i for a resource of size T has
\* the window start = i * (the profile's chunk size), end = min(start +
\* chunkSize - 1, T - 1); the upstream request carries exactly Range:
\* bytes=start-end, whatever headers the caller forwards, and the response is
\* 206 with Content-Range bytes start-end/T
C21_FixedChunkFetchesItsWindow ==
    FixedChunkServed
        => \E w \in {WindowOf(parseChunkIndex(strategy.query).value,
                              BROWSER_CAPABILITIES[strategy.browser].chunkSize,
                              Len(Content(strategy.url)))} :
              /\ strategy.response.ranges
                    = <<BYTES_EQ \o ToStr(w.start) \o <<"-">> \o ToStr(w.end)>>
              /\ strategy.response.status = 206
              /\ strategy.response.contentRange
                    = ContentRange(w.start, w.end, Len(Content(strategy.url)))

\* the media lines of a manifest
MediaLines(lines) ==
    {i \in 1..Len(lines) :
        StartsWith(lines[i], <<"#", "E", "X", "T", "-", "X", "-", "M", "E", "D", "I", "A", ":">>)}

\* the manifest is a master playlist
IsMaster(text) ==
    IndexOf(text, <<"R", "E", "S", "O", "L", "U", "T", "I", "O", "N", "=">>) > 0

MediaLinesRewritten(p, r, lines) ==
    \E out \in {Pushed(p, r, lines)} :
        \A i \in MediaLines(lines) :
            IF IsMaster(p.fetched.text)
            THEN FirstURLReplaced(lines[i], out[i], URLMatches(lines[i]))
            ELSE out[i] = lines[i]

\* C30: an #EXT-X-MEDIA line with an absolute http(s) URL is rewritten, its
\* first URL replaced by a proxy URL, whenever the manifest is a master
\* playlist (contains RESOLUTION=), on the playlist endpoint and on the
\* segment endpoint alike, and is passed through unchanged in a media playlist
C30_MediaLineRewrittenInMaster ==
    RewriteOf(playlist) # null =>
        MediaLinesRewritten(playlist, RewriteOf(playlist),
                            Split(playlist.fetched.text, <<"\n">>))

\* the value of a key is not an envelope get can read: it is not JSON, or it
\* is of version 2 and its data is not a gzip member
Unreadable(stored) ==
    \/ ~JSONparse(stored.value).ok
    \/ /\ IsVersion2(Envelope(stored))
       /\ ~Gunzip(Base64Decode(Member(Envelope(stored), "data").value)).ok

\* a call of the warm tier met a failure
CallFailed(call) ==
    \/ ~call.connected
    \/ call.rejects
    \/ call.op = "get" /\ call.stored # null /\ Unreadable(call.stored)

\* the segment endpoint fetched a segment from upstream for a request it
\* accepted
SegmentFetched ==
    /\ playlist # null
    /\ playlist.endpoint = "s.ts"
    /\ ~config.DISABLE_M3U8
    /\ playlist.url = TS_URL
    /\ playlist.headers = null
    /\ playlist.fetched.ok
    /\ playlist.fetched.contentType = "video/mp2t"
    /\ ~isM3U8(playlist.fetched)

\* the warm tier failed the lookup of the segment request
LookupFailed ==
    \/ ~playlist.connected
    \/ playlist.rejects
    \/ playlist.found # null /\ Unreadable(playlist.found)

FailedGetMisses ==
    (warm # null /\ warm.op = "get" /\ CallFailed(warm)) => warm.read.entry = null

FailedLookupServesUpstream ==
    (SegmentFetched /\ LookupFailed) =>
        /\ playlist.response.status = 200
        /\ playlist.response.body = playlist.fetched.data
        /\ playlist.response.fetches = 1

FailedWriteDoesNothing ==
    (warm' # null /\ warm = null /\ warm'.op \in {"set", "delete"} /\ CallFailed(warm'))
        => redis' = redis

\* C22: a failure of the warm tier (not connected, a command that fails, a
\* stored envelope that cannot be parsed or decompressed) is absorbed: get
\* reports a miss, set and delete leave the keyspace as it was, and a segment
\* request whose upstream fetch succeeds is answered 200 with the upstream
\* bytes
C22_WarmFailuresAbsorbed ==
    /\ []FailedGetMisses
    /\ []FailedLookupServesUpstream
    /\ [][FailedWriteDoesNothing]_vars

\* a segment is served from upstream over a key that holds a value that is
\* not JSON, while the tier is connected
C22_Witness ==
    /\ SegmentFetched
    /\ playlist.connected /\ ~playlist.rejects /\ ~config.DISABLE_CACHE
    /\ playlist.found # null /\ ~JSONparse(playlist.found.value).ok
    /\ playlist.response.status = 200
    /\ playlist.response.body = playlist.fetched.data
    /\ playlist.reads = 1

\* the segment endpoint answered an accepted request with bytes it fetched
\* from upstream and left them to be cached
MissServed(p) ==
    /\ p # null
    /\ p.endpoint = "s.ts"
    /\ p.write # null
    /\ p.response.status = 200
    /\ p.response.fetches = 1

\* the step in which the handler answers a miss from upstream touches no key:
\* the write it leaves is a presence check not yet answered
AnsweredBeforeCaching ==
    (playlist = null /\ MissServed(playlist')) =>
        /\ redis' = redis
        /\ tsWrites' = Append(tsWrites, playlist'.write @@ [stage |-> "get"])
        /\ playlist'.response.body = playlist'.write.data

\* the presence check of a write found no entry it could read
FoundNothing(write) ==
    \/ write.checked.rejects
    \/ ParseEnvelope(write.checked.found).entry = null

\* a set is under way only for a write whose presence check found nothing
SetOnlyAfterCheck ==
    \A i \in 1..Len(tsWrites) :
        tsWrites[i].stage = "set" => FoundNothing(tsWrites[i])

\* a step of the segment endpoint changes a key only by ending a write whose
\* set was under way
WriteOnlyFromSet ==
    (redis' # redis /\ tsWrites' # tsWrites) =>
        \E i \in 1..Len(tsWrites) :
            /\ tsWrites[i].stage = "set"
            /\ FoundNothing(tsWrites[i])
            /\ tsWrites' = Remove(tsWrites, i)

\* C23: a segment miss served from upstream is answered in a step that does
\* no cache write and leaves the presence check of the warm tier unanswered;
\* a write for the URL is issued only after that check, made after the fetch,
\* found no entry for the URL
C23_WriteOffResponsePathIfAbsent ==
    /\ []SetOnlyAfterCheck
    /\ [][AnsweredBeforeCaching /\ WriteOnlyFromSet]_vars

\* the response of a miss is out while the set of its segment is under way,
\* issued after a presence check that found the key empty
C23_Witness ==
    /\ MissServed(playlist)
    /\ Len(tsWrites) = 1
    /\ tsWrites[1].stage = "set"
    /\ tsWrites[1].data = playlist.response.body
    /\ ~tsWrites[1].checked.rejects
    /\ tsWrites[1].checked.found = null
    /\ getCacheKey(TS_URL) \notin DOMAIN redis

\* a value the proxy stored under a key reads back as the entry it was made
\* from, all of it
HoldsWhole(record) ==
    record.by = "set" => ParseEnvelope(record).entry = record.written

\* every read of the tier reported a miss or the whole entry one writer
\* stored: the lookup of the segment handler and a direct get
ReadsWhole ==
    /\ (warm # null /\ warm.op = "get" /\ warm.read.entry # null) =>
           /\ warm.stored # null
           /\ warm.read.entry = warm.stored.written
    /\ (playlist # null /\ playlist.endpoint = "s.ts" /\ playlist.hit # <<>>) =>
           /\ playlist.found # null
           /\ playlist.response.body = playlist.found.written.data
           /\ playlist.hit = <<Len(playlist.found.written.data)>>

\* a step that changes the value of a key leaves there the whole entry of the
\* writer whose command the server applied last
WritesWhole ==
    redis' # redis =>
        \A key \in DOMAIN redis' :
            (key \notin DOMAIN redis \/ redis'[key] # redis[key])
                => HoldsWhole(redis'[key])

\* the write that ends in this step, if one does
Ending ==
    {i \in 1..Len(tsWrites) :
        tsWrites[i].stage = "set" /\ tsWrites' = Remove(tsWrites, i)}

\* a set that the server applies leaves under the key the entry of that
\* writer and nothing of an earlier one; the other keys are left alone
LastWriterWins ==
    (redis' # redis /\ tsWrites' # tsWrites) =>
        \E i \in Ending :
        \E written \in {getCacheKey(tsWrites[i].url)} :
            /\ DOMAIN redis' = DOMAIN redis \cup {written}
            /\ redis'[written].written = SegmentEntry(tsWrites[i])
            /\ \A key \in DOMAIN redis : key # written => redis'[key] = redis[key]

\* C24: whatever the order in which concurrent segment requests for one URL
\* check and write, every read of the warm tier reports a miss or one whole
\* entry of one writer, and each applied write replaces the entry of the key
\* as a whole, so that when the writers are done the key holds the one entry
\* written last
C24_RacingWritersWholeEntryLastWins ==
    /\ []ReadsWhole
    /\ [][WritesWhole /\ LastWriterWins]_vars

\* two requests raced to the same miss: the set of one is under way, after a
\* presence check that found nothing, over the entry the other has stored
C24_Witness ==
    /\ Len(tsWrites) = 1
    /\ tsWrites[1].stage = "set"
    /\ tsWrites[1].checked.found = null
    /\ ~tsWrites[1].checked.rejects
    /\ getCacheKey(TS_URL) \in DOMAIN redis
    /\ redis[getCacheKey(TS_URL)].by = "set"
    /\ redis[getCacheKey(TS_URL)].written.data \in TSPayloads
    /\ redis[getCacheKey(TS_URL)].written.data # tsWrites[1].data

\* no counter of the analytics is lower after a step than before it
CountersGrow ==
    /\ analytics'.hits >= analytics.hits
    /\ analytics'.misses >= analytics.misses
    /\ analytics'.totalUncompressedBytes >= analytics.totalUncompressedBytes
    /\ analytics'.totalCompressedBytes >= analytics.totalCompressedBytes

\* C29: whatever recordHit and recordMiss calls the segment endpoint makes,
\* the counters hits, misses, totalUncompressedBytes and totalCompressedBytes
\* never decrease, and totalRequests is hits + misses in every state
C29_CountersMonotoneAndConsistent ==
    /\ [](analytics.totalRequests = analytics.hits + analytics.misses)
    /\ [][CountersGrow]_vars

\* hits and misses have both been recorded, with bytes counted
C29_Witness ==
    /\ analytics.hits >= 1
    /\ analytics.misses >= 1
    /\ analytics.totalRequests = MaxRecorded
    /\ analytics.totalCompressedBytes >= 1
    /\ analytics.totalUncompressedBytes > analytics.totalCompressedBytes

\* the status with which the guards of an endpoint reject a request, 0 when
\* they let it pass
GuardStatus(disabledRoute, urlParam, headersParam) ==
    IF disabledRoute THEN 404
    ELSE IF urlParam = absent THEN 400
    ELSE IF headersParam # null /\ ~JSONparse(headersParam).ok THEN 400
    ELSE 0

PlaylistGuard(p) ==
    IF p = null THEN 0
    ELSE GuardStatus(config.DISABLE_M3U8,
                     IF p.endpoint = "s.ts" THEN p.u ELSE p.url, p.headers)

MP4Guard(r) ==
    IF r = null THEN 0 ELSE GuardStatus(config.DISABLE_MP4, r.url, r.headers)

\* a rejected request is answered with the status of its guard, after no
\* upstream fetch, no warm tier lookup and with no segment left to be cached
RejectedUntouched ==
    /\ PlaylistGuard(playlist) # 0 =>
           /\ playlist.response.status = PlaylistGuard(playlist)
           /\ playlist.response.fetches = 0
           /\ playlist.endpoint = "s.ts" =>
                  /\ playlist.reads = 0
                  /\ playlist.hit = <<>>
                  /\ playlist.write = null
    /\ MP4Guard(strategy) # 0 =>
           /\ strategy.serve = "sendError"
           /\ strategy.response.status = MP4Guard(strategy)
           /\ strategy.response.fetches = 0

\* the step that rejects a request leaves every cache, the writes under way
\* and the analytics as they were
RejectionKeepsCaches ==
    (\/ playlist = null /\ PlaylistGuard(playlist') # 0
     \/ strategy = null /\ MP4Guard(strategy') # 0)
        => UNCHANGED <<redis, tsWrites, analytics, segmentCache, tsSegmentCache,
                       inflight, scheduled>>

\* C27: a request that a guard of the playlist, segment or MP4 endpoint
\* rejects (route disabled: 404; url or u missing: 400; headers not JSON: 400)
\* is answered with that status and causes no upstream fetch, no cache read
\* and no cache write
C27_RejectedRequestsTouchNothing ==
    /\ []RejectedUntouched
    /\ [][RejectionKeepsCaches]_vars

\* the segment endpoint rejects headers that are not JSON while the warm
\* tier is connected and holds an entry for the URL asked for
C27_Witness ==
    /\ playlist # null
    /\ playlist.endpoint = "s.ts"
    /\ playlist.url = TS_URL
    /\ ~config.DISABLE_M3U8
    /\ playlist.headers # null /\ ~JSONparse(playlist.headers).ok
    /\ playlist.response.status = 400
    /\ isConnected /\ ~config.DISABLE_CACHE
    /\ playlist.found # null
    /\ ParseEnvelope(playlist.found).entry # null

\* the proxy treats the upstream's answer as an HLS manifest
TreatedAsManifest(f) ==
    /\ f.ok
    /\ \/ f.contentType \in {"application/vnd.apple.mpegurl", "application/x-mpegurl"}
       \/ StartsWith(f.text, <<"#", "E", "X", "T", "M", "3", "U">>)

\* a segment to be cached or cached is no manifest, by its type and its bytes
NoManifest(contentType, data) ==
    /\ contentType \notin {"application/vnd.apple.mpegurl", "application/x-mpegurl"}
    /\ ~StartsWith(data, Utf8(<<"#", "E", "X", "T", "M", "3", "U">>))

\* the segment endpoint hands the request to the playlist endpoint
HandedToPlaylist(p) ==
    /\ p.lb = <<"l", "o", "c", "a", "l">>
    /\ Len(p.url) >= 5
    /\ From(p.url, Len(p.url) - 4) = <<".", "m", "3", "u", "8">>

\* every accepted request of the playlist endpoint, made directly or through
\* the segment endpoint, is fetched from upstream and reads no cache
PlaylistAlwaysFetched ==
    (playlist # null /\ PlaylistGuard(playlist) = 0) =>
        /\ playlist.endpoint = "m3u8-proxy.ts" => playlist.response.fetches = 1
        /\ (playlist.endpoint = "s.ts" /\ HandedToPlaylist(playlist)) =>
               /\ playlist.response.fetches = 1
               /\ playlist.reads = 0
               /\ playlist.write = null

\* the segment endpoint leaves only answers it does not treat as a manifest
\* to be cached, and an answer it rewrites was fetched for this request
OnlySegmentsLeftToCache ==
    (playlist # null /\ playlist.endpoint = "s.ts") =>
        /\ playlist.write # null =>
               /\ ~TreatedAsManifest(playlist.fetched)
               /\ playlist.write.data = playlist.fetched.data
        /\ (PlaylistGuard(playlist) = 0 /\ ~HandedToPlaylist(playlist)
            /\ playlist.hit = <<>> /\ TreatedAsManifest(playlist.fetched)) =>
               /\ playlist.response.fetches = 1
               /\ playlist.write = null

\* no write under way and no entry the proxy stored is a manifest; the
\* in-process caches of segments hold nothing of the playlist endpoints
NoTierHoldsManifest ==
    /\ \A i \in 1..Len(tsWrites) :
           NoManifest(tsWrites[i].contentType, tsWrites[i].data)
    /\ \A key \in DOMAIN redis :
           redis[key].by = "set" =>
               NoManifest(Member(redis[key].written.headers, "content-type").value,
                          redis[key].written.data)
    /\ tsSegmentCache = <<>>
    /\ segmentCache = <<>>

\* C28: no cache tier holds a playlist: an answer the proxy treats as an HLS
\* manifest is never written to the hot or the warm tier, every playlist
\* request is fetched from upstream, and what is stored is segment bytes only
C28_ManifestsNeverCached ==
    PlaylistAlwaysFetched /\ OnlySegmentsLeftToCache /\ NoTierHoldsManifest

\* the segment endpoint rewrites a manifest that upstream typed as a segment,
\* with the warm tier connected and empty, and leaves nothing to be cached
C28_Witness ==
    /\ playlist # null
    /\ playlist.endpoint = "s.ts"
    /\ playlist.url = TS_URL
    /\ playlist.fetched.ok
    /\ playlist.fetched.contentType = "video/mp2t"
    /\ StartsWith(playlist.fetched.text, <<"#", "E", "X", "T", "M", "3", "U">>)
    /\ isConnected /\ ~config.DISABLE_CACHE
    /\ playlist.reads = 1
    /\ playlist.found = null
    /\ playlist.response.status = 200
    /\ playlist.response.fetches = 1
    /\ playlist.write = null
    /\ tsWrites = <<>>

-----------------------------------------------------------------------------
(* C25 *)

\* the lookup of the request being handled found nothing to return: a hot
\* tier lookup returned no entry, the segment endpoint read no key and
\* served no hit
LookupsMiss ==
    /\ lastGet # null => lastGet.returned = null
    /\ (playlist # null /\ playlist.endpoint = "s.ts") =>
           playlist.reads = 0 /\ playlist.hit = <<>> /\ playlist.write = null

\* a step leaves every tier as it was, and no write under way
TiersUntouched == UNCHANGED <<segmentCache, tsSegmentCache, redis, tsWrites>>

\* C25: while config.DISABLE_CACHE is set, every lookup of getCachedSegment,
\* of getCachedChunk and of the segment endpoint reports a miss, and no
\* request and no prefetch adds, replaces or removes an entry of any tier
C25_DisabledCacheFrozen ==
    /\ [](config.DISABLE_CACHE => LookupsMiss)
    /\ [][config.DISABLE_CACHE => TiersUntouched]_vars

\* the same with the environment's DISABLE_CACHE set as well: the flag
\* that the MP4 hot tier reads
BothFlagsFreeze ==
    /\ []((config.DISABLE_CACHE /\ cacheDisabled) => LookupsMiss)
    /\ [][(config.DISABLE_CACHE /\ cacheDisabled) => TiersUntouched]_vars

\* the flag of config.json keeps the segment endpoint and getCachedSegment
\* off the tiers they read
ConfigFlagFreezesItsTiers ==
    /\ [](config.DISABLE_CACHE =>
              /\ (lastGet # null /\ lastGet.tier = "ts") => lastGet.returned = null
              /\ (playlist # null /\ playlist.endpoint = "s.ts") =>
                     playlist.reads = 0 /\ playlist.hit = <<>>
                     /\ playlist.write = null)
    /\ [][config.DISABLE_CACHE => UNCHANGED <<tsSegmentCache, redis, tsWrites>>]_vars

\* with config.DISABLE_CACHE set and the environment's DISABLE_CACHE not, a
\* ranged MP4 request is answered from an entry that a prefetch stored
DisabledYetServedFromCache ==
    /\ config.DISABLE_CACHE /\ ~cacheDisabled
    /\ lastGet # null /\ lastGet.tier = "mp4"
    /\ lastGet.returned # null
    /\ response # null /\ response.status = 206

-----------------------------------------------------------------------------
(* C26 *)

\* a step of a prefetch: its timer fires, or one of its fetches ends
PrefetchStep ==
    \/ inflight' # inflight
    \/ scheduled' # scheduled /\ scheduled' \subseteq scheduled

\* a step that queues a prefetch
SchedulingStep == ~(scheduled' \subseteq scheduled)

\* the step that queues a prefetch is the one that returns the response of
\* the request it is queued for, and starts no fetch of it
DeterminedBeforeStart ==
    SchedulingStep =>
        /\ request' # null /\ response' # null
        /\ Ok(response'.status)
        /\ scheduled' \ scheduled =
               {PrefetchJob(request'.url, Len(Content(request'.url)))}
        /\ inflight' = inflight

\* no step of a prefetch touches the request being answered or its response
PrefetchLeavesResponse == PrefetchStep => UNCHANGED <<request, response>>

\* a response, once returned, is what is sent
ResponseSettled == response # null => response' \in {response, null}

\* C26: the response of the cache backed proxyMP4 is returned in the step
\* that queues the prefetch, before any fetch of it starts; no later step of
\* a prefetch, whether its fetch is answered, answered with an error, rejects
\* or never ends, changes the response or keeps it from being sent
C26_PrefetchDetached ==
    /\ [](response # null => ENABLED Return)
    /\ [][DeterminedBeforeStart]_vars
    /\ [][PrefetchLeavesResponse]_vars
    /\ [][ResponseSettled]_vars

\* a 200 response waits to be sent while a fetch of the prefetch it queued
\* is under way and the origin has stopped answering GET
C26_Witness ==
    /\ request # null /\ response # null
    /\ response.status = 200
    /\ PrefetchJob(request.url, Len(Content(request.url))) \notin scheduled
    /\ \E fetch \in BagToSet(inflight) : fetch.url = request.url
    /\ ~upstream.getOk

-----------------------------------------------------------------------------
(* C31 *)

\* the keys of a Map
MapKeys(m) == {m[i].key : i \in 1..Len(m)}

\* no pair of m is older than the time to live at time t, and m is within
\* capacity
SweptCache(m, t) ==
    /\ \A i \in 1..Len(m) : t - m[i].entry.timestamp <= CACHE_EXPIRY_MS
    /\ Len(m) <= CACHE_MAX_SIZE

\* the pairs that the capacity branch of a sweep of m at time t removes
EvictedForCapacity(m, t) ==
    {DropExpired(m, t, CACHE_EXPIRY_MS)[i] :
         i \in {j \in 1..Len(DropExpired(m, t, CACHE_EXPIRY_MS)) :
                    DropExpired(m, t, CACHE_EXPIRY_MS)[j].key
                        \notin MapKeys(cleanupCache(m, t))}}

\* what a sweep of the Map at time now leaves: nothing expired, at most
\* CACHE_MAX_SIZE pairs, each a pair the Map held, none older than a pair
\* removed for capacity
SweepLeaves ==
    \E swept \in {cleanupCache(segmentCache, now)} :
        /\ SweptCache(swept, now)
        /\ \A i \in 1..Len(swept) :
               MapGet(segmentCache, swept[i].key) = swept[i].entry
        /\ \A gone \in EvictedForCapacity(segmentCache, now) :
           \A i \in 1..Len(swept) :
               swept[i].entry.timestamp >= gone.entry.timestamp

\* a step that removes a key other than the expired key of its own lookup is
\* a whole sweep: the Map it leaves is swept
RemovalIsWholeSweep ==
    (MapKeys(segmentCache) \ MapKeys(segmentCache')) \
        (IF lastGet' = null THEN {} ELSE {lastGet'.key}) # {}
    => SweptCache(segmentCache', now')

\* a lookup sees the Map as the step before left it, and deletes at most the
\* key it looked up
LookupSeesWholeMap ==
    (lastGet' # null /\ lastGet = null /\ lastGet'.tier = "mp4") =>
        /\ lastGet'.found = MapGet(segmentCache, lastGet'.key)
        /\ MapKeys(segmentCache) \ MapKeys(segmentCache') \subseteq {lastGet'.key}

\* C31: when cleanupCache completes no entry older than the time to live
\* remains and the Map holds at most CACHE_MAX_SIZE entries; the entries
\* removed for capacity are the oldest by timestamp; and the sweep is one
\* step with respect to lookups and stores, so no lookup sees a Map that is
\* partly swept
C31_SweepCompleteOldestFirstAtomic ==
    /\ []SweepLeaves
    /\ [][RemovalIsWholeSweep]_vars
    /\ [][LookupSeesWholeMap]_vars

\* a Map over capacity with nothing expired, whose sweep removes an entry
\* older than one it keeps
C31_Witness ==
    /\ Len(DropExpired(segmentCache, now, CACHE_EXPIRY_MS)) > CACHE_MAX_SIZE
    /\ \E gone \in EvictedForCapacity(segmentCache, now) :
       \E i \in 1..Len(cleanupCache(segmentCache, now)) :
           cleanupCache(segmentCache, now)[i].entry.timestamp > gone.entry.timestamp

-----------------------------------------------------------------------------
(* C32 *)

\* the longest resource whose windows are examined
MaxResource == 9

\* the windows that a prefetch of url considers when the resource has L
\* bytes: those it fetches when nothing is cached
WindowsOf(url, L) == prefetchMP4Chunks(<<>>, FALSE, now, url, L).fetches

Windows(url) == WindowsOf(url, Len(Content(url)))

\* the windows start at byte 0, follow one another without gap or overlap,
\* hold CHUNK_SIZE bytes each but for the last, which may be shorter, end
\* within the resource and cover the first min(L, MAX_PREFETCH_BYTES) bytes
WindowsTile(url, L) ==
    \E w \in {WindowsOf(url, L)} :
        /\ \A i \in 1..Len(w) : w[i].url = url /\ w[i].start <= w[i].end
        /\ Len(w) > 0 => w[1].start = 0
        /\ \A i \in 1..(Len(w) - 1) :
               /\ w[i + 1].start = w[i].end + 1
               /\ w[i].end - w[i].start + 1 = CHUNK_SIZE
        /\ \A i \in 1..Len(w) :
               w[i].end <= L - 1 /\ w[i].end - w[i].start + 1 <= CHUNK_SIZE
        /\ IF L = 0 THEN w = <<>>
           ELSE w[Len(w)].end + 1 = Min(L, MAX_PREFETCH_BYTES)

\* the entry of window w in Map m can be served at time t
PresentUnexpired(m, t, w) ==
    \E entry \in {MapGet(m, CacheKey(w.url, ClosedRange(w.start, w.end)))} :
        entry # null /\ t - entry.timestamp <= CACHE_EXPIRY_MS

\* a prefetch of url run now fetches, in order, exactly the windows whose
\* entry is absent or expired in the Map as its sweep leaves it
FetchesWhatIsMissing(url) ==
    \E st \in {prefetchMP4Chunks(segmentCache, FALSE, now, url, Len(Content(url)))} :
        /\ st.cache = cleanupCache(segmentCache, now)
        /\ st.fetches = SelectSeq(Windows(url),
                                  LAMBDA w : ~PresentUnexpired(st.cache, now, w))

\* the fetches that a step of a prefetch starts are of windows of the job,
\* none of which the Map can serve
StartsOnlyMissing ==
    \A job \in scheduled \ scheduled' :
    \A fetch \in {f \in BagToSet(inflight') :
                      CopiesIn(f, inflight') > CopiesIn(f, inflight)} :
        /\ \E i \in 1..Len(Windows(job.url)) : Windows(job.url)[i] = fetch
        /\ ~PresentUnexpired(segmentCache', now, fetch)

\* C32: a prefetch for a resource of length L considers consecutive windows
\* of CHUNK_SIZE bytes from byte 0 that do not overlap, cover exactly the
\* first min(L, MAX_PREFETCH_BYTES) bytes and never end past L - 1; it
\* issues no fetch for a window whose entry is present and unexpired when
\* the window is considered
C32_PrefetchWindows ==
    /\ [](\A L \in 0..MaxResource : WindowsTile(MP4_C, L))
    /\ [](\A url \in URLs : FetchesWhatIsMissing(url))
    /\ [][StartsOnlyMissing]_vars

\* a prefetch of the five byte resource is due while the Map can serve its
\* first window and not its second
C32_Witness ==
    /\ PrefetchJob(MP4_B, 5) \in scheduled
    /\ PresentUnexpired(cleanupCache(segmentCache, now), now,
                        [url |-> MP4_B, start |-> 0, end |-> 1])
    /\ ~PresentUnexpired(cleanupCache(segmentCache, now), now,
                         [url |-> MP4_B, start |-> 2, end |-> 3])
    /\ prefetchMP4Chunks(segmentCache, cacheDisabled, now, MP4_B, 5).fetches
           = <<[url |-> MP4_B, start |-> 2, end |-> 3]>>

-----------------------------------------------------------------------------
(* C33 *)

\* the forwarding proxyMP4 of part_002 answered the request
ForwardingAnswered ==
    request # null /\ response # null /\ deployed = "part_002.forwarding"

\* C33: in RangePassthrough the upstream request carries the client's Range
\* header as it came, and the status and the Content-Range of the response
\* are those of the upstream's answer to it
C33_PassthroughRelaysUpstream ==
    ForwardingAnswered =>
        \E up \in {UpstreamGet(upstream, request.url, request.rangeHeader)} :
            /\ response.status = up.status
            /\ response.contentRange = up.contentRange

\* the same for the answers of the upstream that are 200 or 206
SuccessRelayed ==
    ForwardingAnswered =>
        \E up \in {UpstreamGet(upstream, request.url, request.rangeHeader)} :
            up.status \in {200, 206} =>
                /\ response.status = up.status
                /\ response.contentRange = up.contentRange
                /\ response.body = up.body

\* proxyMP4 of the strategy handler: the Range of a client whose profile
\* prefers the full file reaches the upstream for Firefox and never for
\* Safari, that of any other client always; status and Content-Range are
\* those of the upstream's answer
ProfiledPassthrough ==
    (/\ strategy # null /\ strategy.serve = "proxyMP4"
     /\ strategy.method = "GET" /\ strategy.headers = null) =>
        \E up \in {UpstreamGet(upstream, strategy.url,
                               IF strategy.browser = "safari" THEN absent
                               ELSE strategy.rangeHeader)} :
            /\ strategy.response.status = up.status
            /\ strategy.response.contentRange = up.contentRange
            /\ strategy.response.body = up.body

\* the forwarding handler answers 500 to a Range that the upstream answered
\* with 416
UnsatisfiableBecomes500 ==
    /\ ForwardingAnswered
    /\ request.rangeHeader = OpenRange(5)
    /\ UpstreamGet(upstream, request.url, request.rangeHeader).status = 416
    /\ response.status = 500

-----------------------------------------------------------------------------
(* C34 *)

\* the value of a hexadecimal digit
HexValue(c) ==
    (CHOOSE i \in 1..16 : (Digits \o <<"A", "B", "C", "D", "E", "F">>)[i] = c) - 1

\* decodeURIComponent(text): % and two hexadecimal digits become the
\* character of that code
RECURSIVE decodeURIComponent(_)
decodeURIComponent(text) ==
    IF text = <<>> THEN <<>>
    ELSE IF Head(text) = "%" /\ Len(text) >= 3
    THEN Text(<<16 * HexValue(text[2]) + HexValue(text[3])>>)
         \o decodeURIComponent(From(text, 4))
    ELSE <<Head(text)>> \o decodeURIComponent(Tail(text))

\* the names of the query parameters the handler reads
ParamNames ==
    <<[text |-> <<"u", "r", "l">>, name |-> "url"],
      [text |-> <<"h", "e", "a", "d", "e", "r", "s">>, name |-> "headers"],
      [text |-> <<"c", "h", "u", "n", "k", "e", "d">>, name |-> "chunked"],
      [text |-> <<"c", "h", "u", "n", "k">>, name |-> "chunk"],
      [text |-> <<"p", "l", "a", "y", "l", "i", "s", "t">>, name |-> "playlist"],
      [text |-> <<"s", "e", "g", "m", "e", "n", "t">>, name |-> "segment"],
      [text |-> <<"p", "r", "o", "g", "r", "e", "s", "s", "i", "v", "e">>,
       name |-> "progressive"],
      [text |-> <<"s", "t", "a", "r", "t">>, name |-> "start"]>>

\* getQuery(event) for a request of the path given: the parameters after the
\* question mark, separated by &, each a name and a percent-decoded value
getQuery(path) ==
    LET search == IF IndexOf(path, <<"?">>) = 0 THEN <<>>
                  ELSE From(path, IndexOf(path, <<"?">>) + 1)
        pieces == IF search = <<>> THEN <<>> ELSE Split(search, <<"&">>)
        nameOf(piece) == IF IndexOf(piece, <<"=">>) = 0 THEN piece
                         ELSE SubSeq(piece, 1, IndexOf(piece, <<"=">>) - 1)
        valueOf(piece) == IF IndexOf(piece, <<"=">>) = 0 THEN <<>>
                          ELSE From(piece, IndexOf(piece, <<"=">>) + 1)
        known(piece) == \E k \in 1..Len(ParamNames) : ParamNames[k].text = nameOf(piece)
    IN [k \in 1..Len(pieces) |->
           [name |-> IF known(pieces[k])
                     THEN ParamNames[CHOOSE n \in 1..Len(ParamNames) :
                                         ParamNames[n].text = nameOf(pieces[k])].name
                     ELSE "other",
            value |-> decodeURIComponent(valueOf(pieces[k]))]]

\* the headers parameter as the handler holds it before JSON.parse: the text
\* of an object is that object's JSON, any other text does not parse
HeadersParam(query) ==
    IF ~Member(query, "headers").defined THEN null
    ELSE IF \E h \in ForwardedHeaders : JSONtext(h.json) = Member(query, "headers").value
    THEN CHOOSE h \in ForwardedHeaders : JSONtext(h.json) = Member(query, "headers").value
    ELSE [garbage |-> TRUE]

\* the chunk sizes a manifest of the chunk manager is generated with: the
\* default, and two small ones
DescriptorChunkSizes == {0, 2, 3}

\* the descriptors of the manifests of the resources of an origin: those of
\* the playlist the handler serves, and those generateManifest makes for the
\* length the origin announces
Descriptors(u) ==
    UNION {
        (IF getMP4Playlist(u, url).status = 200
         THEN {[manifest |-> "getMP4Playlist", total |-> getMP4Playlist(u, url).body.totalSize,
                descriptor |-> getMP4Playlist(u, url).body.segments[k]] :
                   k \in 1..Len(getMP4Playlist(u, url).body.segments)}
         ELSE {})
        \cup
        (IF Ok(UpstreamHead(u, url).status) /\ LengthOf(UpstreamHead(u, url)) > 0
         THEN {[manifest |-> "generateManifest", total |-> LengthOf(UpstreamHead(u, url)),
                descriptor |-> d] :
                   d \in UNION {{generateManifest(url, LengthOf(UpstreamHead(u, url)),
                                                    <<>>, c).chunks[k] :
                                       k \in 1..generateManifest(
                                                    url, LengthOf(UpstreamHead(u, url)),
                                                    <<>>, c).totalChunks} :
                                   c \in DescriptorChunkSizes}}
         ELSE {}) : url \in {MP4_B, MP4_C}}

\* a client GETs the URL that a descriptor of a manifest carries
RequestDescriptor(userAgent, entry) ==
    /\ Idle
    /\ \E browser \in {detectBrowser(userAgent)}, query \in {getQuery(entry.descriptor.url)} :
       \E done \in {mp4Strategy(config.DISABLE_MP4, upstream, "GET", browser, query,
                                absent,
                                IF Member(query, "url").defined
                                THEN Member(query, "url").value ELSE absent,
                                HeadersParam(query),
                                [i \in 1..MAX_SEGMENTS_PER_REQUEST |-> "none"])} :
           strategy' = [method |-> "GET", userAgent |-> userAgent,
                        browser |-> browser, query |-> query,
                        rangeHeader |-> absent, url |-> Member(query, "url").value,
                        headers |-> HeadersParam(query),
                        faults |-> [i \in 1..MAX_SEGMENTS_PER_REQUEST |-> "none"],
                        selected |-> done.strategy, serve |-> done.serve,
                        response |-> done.response,
                        manifest |-> entry.manifest, total |-> entry.total,
                        descriptor |-> entry.descriptor]
    /\ UNCHANGED <<rangeVars, hotVars, mp4Vars, warmVars, playlistVars>>

\* the descriptors of the manifests, requested by every client class from
\* every origin
InitDescriptor == InitStrategy
NextDescriptor ==
    \/ /\ Idle
       /\ \E userAgent \in UserAgents, entry \in Descriptors(upstream) :
              RequestDescriptor(userAgent, entry)
    \/ Return
SpecDescriptor == InitDescriptor /\ [][NextDescriptor]_vars

\* the URL of a descriptor was requested and answered
DescriptorAnswered == strategy # null /\ "descriptor" \in DOMAIN strategy

\* the answer is the 206 of the descriptor's window
AnswersWindow ==
    /\ strategy.response.status = 206
    /\ strategy.response.contentRange
           = ContentRange(strategy.descriptor.start, strategy.descriptor.end,
                          strategy.total)

\* C34: the request of the URL that descriptor i of a manifest carries is
\* answered with 206 and the window of descriptor i, for every descriptor
\* and every client class, when the origin is compliant
C34_DescriptorsFetchable ==
    (DescriptorAnswered /\ upstream = Compliant) => AnswersWindow

\* the same for the descriptors of the playlist the handler serves, and
\* the bytes are those of the window
PlaylistDescriptorsFetchable ==
    (/\ DescriptorAnswered /\ upstream = Compliant
     /\ strategy.manifest = "getMP4Playlist") =>
        /\ AnswersWindow
        /\ strategy.selected = "Segment"
        /\ strategy.url \in {MP4_B, MP4_C}
        /\ strategy.response.body
               = SubSeq(Content(strategy.url), strategy.descriptor.start + 1,
                        strategy.descriptor.end + 1)

\* Chrome requests the URL of the second descriptor of a manifest of 3 byte
\* chunks of the nine byte resource and is answered 200 by the progressive
\* batch
ChunkDescriptorNotServed ==
    /\ DescriptorAnswered /\ upstream = Compliant
    /\ strategy.manifest = "generateManifest"
    /\ strategy.browser = "chrome"
    /\ strategy.url = MP4_C
    /\ strategy.descriptor.index = 1 /\ strategy.descriptor.start = 3
    /\ strategy.response.status = 200

-----------------------------------------------------------------------------
(* C35 *)

\* the number of bytes of the window that the text "s-e" names, after the
\* prefix given ("bytes " of a Content-Range, "bytes=" of a range), up to a
\* slash if there is one
WindowLength(text, prefix) ==
    LET window == Split(From(text, Len(prefix) + 1), <<"/">>)[1]
        dash == IndexOf(window, <<"-">>)
    IN parseInt(From(window, dash + 1)) - parseInt(SubSeq(window, 1, dash - 1)) + 1

\* a 206 is the answer of the handler
PartialAnswered == response # null /\ response.status = 206

\* the body and the Content-Length of the 206 have the length of the window
\* of its Content-Range
BodyFitsContentRange ==
    PartialAnswered =>
        /\ Len(response.body) = WindowLength(response.contentRange, BYTES_SP)
        /\ response.contentLength
               = ToStr(WindowLength(response.contentRange, BYTES_SP))

\* every entry of the Map holds as many bytes as the window of its key
EntriesFitKey ==
    \A k \in 1..Len(segmentCache) :
        Len(segmentCache[k].entry.data)
            = WindowLength(segmentCache[k].entry.range, BYTES_EQ)

\* C35: every 206 of an MP4 handler has a body and a Content-Length of the
\* length of the window of its Content-Range, and every entry of the hot
\* tier holds the bytes of the window of its key, whatever the origin does
\* with the Range it was sent
C35_PartialLengthInvariant == BodyFitsContentRange /\ EntriesFitKey

\* the same against the origins that honour the Range they are sent and
\* announce the length of their answer
HonouredRangeFits ==
    (upstream.ranges = "honour" /\ upstream.getLength) => C35_PartialLengthInvariant

\* an origin that ignores Range answered the prefetch of a window of two
\* bytes with the five bytes of the resource, and they were stored under the
\* window's key
FullBodyUnderWindowKey ==
    /\ upstream.ranges = "ignore"
    /\ \E k \in 1..Len(segmentCache) :
           /\ segmentCache[k].entry.range = ClosedRange(0, 1)
           /\ Len(segmentCache[k].entry.data) = 5

\* the handler of s.ts sent Range bytes=0-1 to an origin that ignores it and
\* answered 206 for the window 0-1 with the five bytes of the resource
FullBodyAsPartial ==
    /\ deployed = "s.ts" /\ upstream.ranges = "ignore" /\ upstream.getLength
    /\ PartialAnswered
    /\ request.rangeHeader = ClosedRange(0, 1)
    /\ response.contentRange = ContentRange(0, 1, 5)
    /\ response.contentLength = ToStr(5)
    /\ Len(response.body) = 5

-----------------------------------------------------------------------------
(* C36 *)

\* the segment or the chunk function answered the request with a 206
WindowServed ==
    /\ strategy # null
    /\ strategy.serve \in {"getMP4Segment", "handleChunkedRequest"}
    /\ strategy.response.status = 206

\* text is "bytes start-end/total" with 0 <= start <= end < total
WellFormedContentRange(text, total) ==
    \E start \in 0..(total - 1), end \in 0..(total - 1) :
        start <= end /\ text = ContentRange(start, end, total)

\* C36: every 206 of the segment, fixed chunk and chunked range paths carries
\* a Content-Range "bytes start-end/total" of the resource's total with
\* 0 <= start <= end < total, for every index and every Range header
C36_ContentRangeWellFormed ==
    WindowServed =>
        WellFormedContentRange(strategy.response.contentRange,
                               Len(Content(strategy.url)))

\* the first byte of the window that the request's segment or chunk index
\* names: index times the segment size or the profile's chunk size; 0 for a
\* request without an index
IndexedStart ==
    IF strategy.serve = "getMP4Segment"
    THEN parseInt10(Member(strategy.query, "segment").value).value * SEGMENT_SIZE
    ELSE IF parseChunkIndex(strategy.query).nan THEN 0
    ELSE parseChunkIndex(strategy.query).value
             * BROWSER_CAPABILITIES[strategy.browser].chunkSize

\* the same for the indices whose window starts inside the resource, when
\* the request brings no Range of its own
InsideIndexWellFormed ==
    (/\ WindowServed
     /\ strategy.rangeHeader = absent /\ strategy.headers \in {null, JSONstringify(<<>>)}
     /\ IndexedStart >= 0 /\ IndexedStart < Len(Content(strategy.url))) =>
        WellFormedContentRange(strategy.response.contentRange,
                               Len(Content(strategy.url)))

\* segment 9 of the five byte resource is answered 206 with bytes 18-4/5
SegmentBeyondEnd ==
    /\ WindowServed
    /\ strategy.serve = "getMP4Segment"
    /\ strategy.url = MP4_B
    /\ Member(strategy.query, "segment").value = <<"9">>
    /\ strategy.response.contentRange = ContentRange(18, 4, 5)

\* chunk 2 of the five byte resource in chunks of three bytes is answered
\* 206 with bytes 6-4/5
ChunkBeyondEnd ==
    /\ WindowServed
    /\ strategy.serve = "handleChunkedRequest"
    /\ strategy.url = MP4_B
    /\ strategy.response.contentRange = ContentRange(6, 4, 5)

-----------------------------------------------------------------------------
(* C37 *)

\* no window has two prefetch fetches in flight
OneFetchPerWindow ==
    \A fetch \in BagToSet(inflight) : CopiesIn(fetch, inflight) <= 1

\* a step starts a fetch only for a window whose entry the Map does not hold
\* unexpired
StartsNoStoredWindow ==
    \A fetch \in BagToSet(inflight') :
        CopiesIn(fetch, inflight') > CopiesIn(fetch, inflight) =>
            ~PresentUnexpired(segmentCache', now, fetch)

\* C37: under every interleaving of the requests of a URL and their
\* prefetch tasks, a byte window has at most one prefetch fetch in flight,
\* and no fetch is started for a window whose entry is stored and unexpired
C37_WindowFetchedOnce ==
    /\ []OneFetchPerWindow
    /\ [][StartsNoStoredWindow]_vars

\* the part of it about stored windows
StoredWindowNotRefetched == [][StartsNoStoredWindow]_vars

\* the prefetch tasks of two requests of the two byte resource both fetch
\* its window, the first fetch not having answered when the second starts
WindowFetchedTwice ==
    CopiesIn([url |-> MP4_A, start |-> 0, end |-> 1], inflight) = 2

-----------------------------------------------------------------------------
(* C38 *)

\* what the origin answers for TS_URL, the same at every fetch: a segment
\* typed video/mp2t, a segment of another type, or a failure
TSOrigins ==
    {[ok |-> TRUE, contentType |-> "video/mp2t", text |-> <<"G">>,
      data |-> <<71, 64, 17, 0>>],
     [ok |-> TRUE, contentType |-> "application/octet-stream", text |-> <<"G">>,
      data |-> <<71, 64, 17, 1>>],
     [ok |-> FALSE]}

\* the segment endpoint over the warm tier for a URL whose origin answers the
\* same at every fetch: upstream holds that answer
InitTransparent ==
    /\ RangeIdle /\ HotIdle /\ PlaylistIdle /\ StrategyIdle
    /\ upstream \in TSOrigins
    /\ deployed = "s.ts"
    /\ request = null
    /\ response = null
    /\ redis \in {EmptyStore,
                  Left(getCacheKey(TS_URL),
                       JSONstringify(LegacyMembers \o <<[name |-> "version", value |-> 1]>>),
                       LegacyEntry)}
    /\ isConnected = FALSE
    /\ warm = null
    /\ JobsIdle

NextTransparent ==
    \/ Idle /\ Connect
    \/ Idle /\ Disconnect
    \/ /\ Idle
       /\ Len(tsWrites) < MaxJobs
       /\ analytics.totalRequests + Len(tsWrites) < MaxRecorded
       /\ \E rejects \in BOOLEAN :
              ProxyTS(Base64Encode(Utf8(TS_URL)), absent, null, upstream, rejects)
    \/ \E i \in 1..Len(tsWrites), rejects \in BOOLEAN : PresenceChecked(i, rejects)
    \/ \E i \in 1..Len(tsWrites), rejects \in BOOLEAN : SegmentStored(i, rejects)
    \/ Tick
    \/ Return

SpecTransparent == InitTransparent /\ [][NextTransparent]_vars

\* the request was answered from an entry of the warm tier that a miss of
\* the segment endpoint stored
WarmHit ==
    /\ playlist # null /\ playlist.endpoint = "s.ts"
    /\ playlist.hit # <<>>
    /\ playlist.found # null /\ playlist.found.by = "set"

\* the answer is that of the request served from upstream, and no fetch was
\* made for it
SameAsUpstream ==
    WarmHit =>
        \E miss \in {ServeSegment(FALSE, FALSE, FALSE, EmptyStore, now, TS_URL, <<>>,
                                  upstream).response} :
            /\ miss.fetches = 1
            /\ playlist.response.status = miss.status
            /\ playlist.response.body = miss.body
            /\ playlist.response.contentType = miss.contentType
            /\ playlist.response.fetches = 0

\* a write that a miss leaves carries the body and the Content-Type of the
\* answer of that miss
WriteCarriesAnswer ==
    (playlist = null /\ MissServed(playlist')) =>
        /\ playlist'.write.data = playlist'.response.body
        /\ playlist'.write.contentType = playlist'.response.contentType
        /\ playlist'.response.body = upstream.data
        /\ playlist'.response.contentType = upstream.contentType

\* C38: for a URL whose upstream content does not change, a segment request
\* answered from the warm tier has the body and the Content-Type of the
\* request that was answered from upstream and populated the cache, and it
\* makes no upstream fetch
C38_CacheTransparent == /\ []SameAsUpstream /\ [][WriteCarriesAnswer]_vars

\* a segment typed application/octet-stream is answered from the entry that
\* an earlier miss stored
C38_Witness ==
    /\ WarmHit
    /\ upstream.contentType = "application/octet-stream"
    /\ playlist.response.contentType = "application/octet-stream"
    /\ playlist.response.body = <<71, 64, 17, 1>>
    /\ playlist.response.fetches = 0

-----------------------------------------------------------------------------
(* C39 *)

\* the requests of the MP4 route, without the failures their fetches meet
LifecycleRequests ==
    {[method |-> r.method, userAgent |-> r.userAgent, query |-> r.query,
      rangeHeader |-> r.rangeHeader, url |-> r.url, headers |-> r.headers] :
        r \in StrategyRequests}

\* the failures met by the fetches answered so far, and none for the others
Met(met) ==
    [i \in 1..MAX_SEGMENTS_PER_REQUEST |-> IF i <= Len(met) THEN met[i] ELSE "none"]

\* the handler's result for the request in progress when its fetches meet
\* the failures given
Whole(r, faults) ==
    mp4Strategy(config.DISABLE_MP4, upstream, r.method, r.browser, r.query,
                r.rangeHeader, r.url, r.headers, faults)

\* the start parameter of the request: parseInt(start || '0', 10)
StartSegment(query) ==
    IF Member(query, "start").defined /\ Member(query, "start").value # <<>>
    THEN parseInt10(Member(query, "start").value)
    ELSE parseInt10(<<"0">>)

SegmentsToServeUnbounded(totalSegments, startSegment) == totalSegments - startSegment

\* segmentsToServe of getMP4Progressive
SegmentsToServe(totalSegments, startSegment) ==
    Min(MAX_SEGMENTS_PER_REQUEST, totalSegments - startSegment)

\* the handler sends a response and returns
Respond(answer) ==
    strategy' = [strategy EXCEPT !.phase = "Responded",
                                 !.responses = Append(@, answer)]

\* the event of a request reaches the handler, which runs to its first
\* await: the guards answer an error, or a strategy is selected and its
\* function called.  A function other than getMP4Progressive awaits the
\* upstream's answers (awaited: what they make it return); getMP4Progressive
\* awaits the answer to its HEAD request
Receive(asked) ==
    /\ Idle
    /\ \E browser \in {detectBrowser(asked.userAgent)} :
       \E whole \in {mp4Strategy(config.DISABLE_MP4, upstream, asked.method, browser,
                                 asked.query, asked.rangeHeader, asked.url,
                                 asked.headers, Met(<<>>))} :
           strategy' = [method |-> asked.method, userAgent |-> asked.userAgent,
                        browser |-> browser,
                        query |-> asked.query, rangeHeader |-> asked.rangeHeader,
                        url |-> asked.url, headers |-> asked.headers,
                        phase |-> IF whole.serve = "sendError" THEN "Responded"
                                  ELSE IF whole.serve = "getMP4Progressive" THEN "Head"
                                  ELSE "Serve",
                        selected |-> whole.strategy, serve |-> whole.serve,
                        start |-> StartSegment(asked.query),
                        forwarded |-> IF asked.headers = null
                                         \/ ~JSONparse(asked.headers).ok THEN <<>>
                                      ELSE JSONparse(asked.headers).value,
                        awaited |-> IF whole.serve \in {"sendError", "getMP4Progressive"}
                                    THEN <<>> ELSE <<whole.response>>,
                        totalSize |-> 0, turn |-> 0,
                        done |-> [buffers |-> <<>>, ranges |-> <<>>, threw |-> FALSE],
                        met |-> <<>>,
                        responses |-> IF whole.serve = "sendError"
                                      THEN <<whole.response>> ELSE <<>>]
    /\ UNCHANGED <<rangeVars, hotVars, mp4Vars, warmVars, playlistVars>>

\* the awaits of a function other than getMP4Progressive have ended: it
\* returns or throws, and the handler answers
Serve ==
    /\ strategy # null /\ strategy.phase = "Serve"
    /\ Respond(strategy.awaited[1])
    /\ UNCHANGED <<rangeVars, hotVars, mp4Vars, warmVars, playlistVars>>

\* getMP4Progressive: the HEAD request is answered
HeadAnswers ==
    /\ strategy # null /\ strategy.phase = "Head"
    /\ \E head \in {UpstreamHead(upstream, strategy.url)} :
           IF ~Ok(head.status) \/ LengthOf(head) = 0
           THEN Respond(Thrown @@ [ranges |-> <<>>])
           ELSE IF strategy.start.nan
           THEN Respond(ProgressiveResponse(strategy.start,
                                            Ceil(LengthOf(head), SEGMENT_SIZE),
                                            strategy.done))
           ELSE strategy' = [strategy EXCEPT !.phase = "Loop",
                                             !.totalSize = LengthOf(head)]
    /\ UNCHANGED <<rangeVars, hotVars, mp4Vars, warmVars, playlistVars>>

\* the Range header of the fetch of the turn the loop is in
TurnRange ==
    RangeSent(ChunkRange((strategy.start.value + strategy.turn) * SEGMENT_SIZE,
                         Min((strategy.start.value + strategy.turn) * SEGMENT_SIZE
                                 + SEGMENT_SIZE - 1,
                             strategy.totalSize - 1)),
              strategy.forwarded)

\* the loop test holds: the fetch of the turn is issued
IssueFetch ==
    /\ strategy # null /\ strategy.phase = "Loop"
    /\ strategy.turn < SegmentsToServe(Ceil(strategy.totalSize, SEGMENT_SIZE),
                                       strategy.start.value)
    /\ strategy' = [strategy EXCEPT !.phase = "Fetch",
                                    !.done.ranges = Append(@, TurnRange)]
    /\ UNCHANGED <<rangeVars, hotVars, mp4Vars, warmVars, playlistVars>>

\* the loop test fails: the buffers are combined and returned
LoopEnds ==
    /\ strategy # null /\ strategy.phase = "Loop"
    /\ strategy.turn >= SegmentsToServe(Ceil(strategy.totalSize, SEGMENT_SIZE),
                                        strategy.start.value)
    /\ Respond(ProgressiveResponse(strategy.start,
                                   Ceil(strategy.totalSize, SEGMENT_SIZE),
                                   strategy.done))
    /\ UNCHANGED <<rangeVars, hotVars, mp4Vars, warmVars, playlistVars>>

\* the fetch of the turn is answered, or fails: a rejection is thrown to the
\* handler's catch, a status that is not a success breaks the loop, a
\* success pushes its body
FetchAnswers(fault) ==
    /\ strategy # null /\ strategy.phase = "Fetch"
    /\ \E fetched \in {FetchChunk(upstream, strategy.url,
                                  strategy.done.ranges[Len(strategy.done.ranges)],
                                  fault)} :
           IF fetched.rejected
           THEN strategy' = [strategy EXCEPT
                                !.phase = "Responded",
                                !.met = Append(@, fault),
                                !.done.threw = TRUE,
                                !.responses =
                                    Append(@, Thrown @@ [ranges |-> strategy.done.ranges])]
           ELSE IF ~Ok(fetched.status) /\ fetched.status # 206
           THEN strategy' = [strategy EXCEPT
                                !.phase = "Responded",
                                !.met = Append(@, fault),
                                !.responses =
                                    Append(@, ProgressiveResponse(
                                                  strategy.start,
                                                  Ceil(strategy.totalSize, SEGMENT_SIZE),
                                                  strategy.done))]
           ELSE strategy' = [strategy EXCEPT
                                !.phase = "Loop",
                                !.met = Append(@, fault),
                                !.turn = @ + 1,
                                !.done.buffers = Append(@, fetched.body)]
    /\ UNCHANGED <<rangeVars, hotVars, mp4Vars, warmVars, playlistVars>>

\* h3 drops the event of a request that was answered
Finish == strategy # null /\ strategy.phase = "Responded" /\ Return

\* a step of the handler of the request in progress
HandlerStep ==
    \/ Serve
    \/ HeadAnswers
    \/ IssueFetch
    \/ LoopEnds
    \/ \E fault \in {"none", "status", "network"} : FetchAnswers(fault)

\* the MP4 route, a request from its arrival to its response; every await
\* of an upstream fetch ends, and the handler runs when it can
InitLifecycle == InitStrategy
NextLifecycle ==
    \/ Idle /\ \E asked \in LifecycleRequests : Receive(asked)
    \/ HandlerStep
    \/ Finish
SpecLifecycle == InitLifecycle /\ [][NextLifecycle]_vars /\ WF_vars(HandlerStep)

InProgress == strategy # null /\ strategy.phase # "Responded"
Answered == strategy # null /\ strategy.phase = "Responded"

\* a request has no response until it is answered, and one from then on
OneResponse ==
    /\ InProgress => strategy.responses = <<>>
    /\ Answered => Len(strategy.responses) = 1

\* the response is that of the handler taken as one function of the
\* request, the origin and the failures met
AgreesWithHandler ==
    Answered =>
        \E whole \in {Whole(strategy, Met(strategy.met))} :
            /\ strategy.selected = whole.strategy
            /\ strategy.serve = whole.serve
            /\ strategy.responses[1] = whole.response

\* the strategies that end a request, the one that serves one segment among
\* them
TerminalStrategies ==
    {"Manifest", "FixedChunk", "Segment", "ProgressiveBatch", "RangePassthrough",
     "FullFile", "Head"}

\* the answer is an error, or the result of one terminal strategy of the set
OutcomeAmong(strategies) ==
    Answered =>
        \/ strategy.serve = "sendError" /\ strategy.responses[1].status \in {400, 404}
        \/ strategy.selected \in strategies

\* the loop of a batch has issued no more than MAX_SEGMENTS_PER_REQUEST
\* fetches
LoopBounded ==
    strategy # null =>
        /\ Len(strategy.done.ranges) <= MAX_SEGMENTS_PER_REQUEST
        /\ Len(strategy.met) <= Len(strategy.done.ranges)

OneOutcome == OutcomeAmong(TerminalStrategies)
OneListedOutcome == OutcomeAmong(TerminalStrategies \ {"Segment"})

SegmentOutcome ==
    /\ Answered
    /\ strategy.selected = "Segment"
    /\ strategy.responses[1].status = 206

====
